---- MODULE Spec2Model ----
(***************************************************************************)
(* Model of goxy's spend limiter (pricing.ManagerMoney, pricing/limit.go)   *)
(* and of its SQLite persistence wrapper (persistence.PersistentLimit-      *)
(* Manager, persistence/persistence.go).  Goroutines run one call at a      *)
(* time.  A step of a call runs from one access of shared state that can   *)
(* conflict with another goroutine to the next: the sync.Map store, the    *)
(* critical sections of kw.mu and p.mu, the reads of m.limit.              *)
(* The pricing package (pricing/pricing.go, pricing/config.go, the usage   *)
(* parsers) is a set of functions of the loaded configuration; a call      *)
(* applies one of them.                                                    *)
(***************************************************************************)
EXTENDS Integers, Sequences, FiniteSets, TLC

\* ---- bounds of the model -------------------------------------------------
MaxTime == 2           \* last clock tick explored
MaxSpent == 3          \* largest total a key may be charged up to
MaxRestarts == 1       \* process restarts explored
MaxCalls == 2          \* calls issued over the whole run

\* ---- time ----------------------------------------------------------------
\* The clock counts ticks; a second is SecTicks ticks, so that the
\* conversion to epoch seconds (time.Time.Unix) loses the sub-second part.
SecTicks == 2
HourSecs == 1
Hour == HourSecs * SecTicks
Day == 24 * Hour
ZeroTime == -1

Unix(t) == t \div SecTicks
FromUnix(u) == u * SecTicks

\* ---- inputs --------------------------------------------------------------
\* goroutines issuing calls
Procs == {1, 2}
\* keys in the order of the load query's ORDER BY key
KeyOrder == <<"", "a", "b">>
Keys == {KeyOrder[i] : i \in 1..Len(KeyOrder)}
Deltas == {-1, 0, 1, 2}
MaskedKeys == {"m"}
\* decimal amounts handed to NewMoneyFromUSD, in halves of a nano-unit
USDInputs == {-3, 0, 3, 5}
MoneyLimits == {-1, 0, 2, 3}

\* ---- pricing.Money -------------------------------------------------------
\* math.Round: half away from zero, on an amount given in half nano-units
NewMoneyFromUSD(h) == IF h >= 0 THEN (h + 1) \div 2 ELSE -((1 - h) \div 2)
\* variant: no amount counts as zero
IsZero_Never(m) == FALSE
IsZero(m) == m = 0
IsNegative(m) == m < 0
\* variant: the comparison admits equality
LessThan_OrEqual(m, other) == m <= other
LessThan(m, other) == m < other
GreaterThan(m, other) == m > other
\* Money is a signed machine integer: sums and products wrap around.  The
\* model keeps MoneyBits bits of it.
MoneyBits == 8
Wrap(x) == ((x + 2^(MoneyBits - 1)) % 2^MoneyBits) - 2^(MoneyBits - 1)
Add(m, other) == Wrap(m + other)
\* variant: the product stops at the largest and smallest amount
Multiply_Saturating(m, factor) ==
  IF m * factor > 2^(MoneyBits - 1) - 1 THEN 2^(MoneyBits - 1) - 1
  ELSE IF m * factor < -(2^(MoneyBits - 1)) THEN -(2^(MoneyBits - 1))
  ELSE m * factor
Multiply(m, factor) == Wrap(m * factor)
\* const MaxMoney Money = math.MaxInt64
MaxMoney == 2^(MoneyBits - 1) - 1

NewManagerMoneyFromUSD(h) == IF h < 0 THEN -1 ELSE NewMoneyFromUSD(h)

\* ---- state ---------------------------------------------------------------
VARIABLES
  now,        \* wall clock, in ticks
  limit,      \* ManagerMoney.limit
  perKey,     \* ManagerMoney.perKey: key -> index into kws, 0 when absent
  kws,        \* allocated keyWindowMoney objects: [mu, windowStart, spent]
  db,         \* usage_tracking table: key -> row or NoRow
  mu,         \* PersistentLimitManager.mu: holder or 0
  stopChan,   \* TRUE once close(stopChan) has run
  dbOpen,     \* FALSE once db.Close() has run
  panicked,   \* a goroutine panicked
  calls,      \* per goroutine: the call it is executing and its locals
  hist,       \* history of the run (not program state)
  pricing     \* package pricing: the loaded config and the latest call's result

vars == <<now, limit, perKey, kws, db, mu, stopChan, dbOpen, panicked, calls, hist, pricing>>

NoRow == [present |-> FALSE, masked |-> "", windowStart |-> 0, spent |-> 0, lastUpdated |-> 0]

Idle == [op |-> "none", fn |-> "none", pc |-> "idle", key |-> "", delta |-> 0, masked |-> "",
         lim |-> 0, kw |-> 0, kwStart |-> 0, unow |-> 0, tmp |-> 0,
         allowed |-> FALSE, spent |-> 0, windowStart |-> 0, windowEnd |-> 0,
         own |-> 0, ownStart |-> 0, stale |-> FALSE,
         idx |-> 0, remaining |-> 0, out |-> <<>>,
         status |-> 0, forwarded |-> FALSE]

\* history of the run: epoch counts the restarts, left the calls that may
\* still be issued, bootTime is the time of construction, loadErr says the
\* load at construction failed, requested[k] sums the positive deltas of the
\* AddCost calls issued for k in the first hour after construction,
\* limitStable says the limit has been positive and unchanged since
\* construction, lastSet is the limit most recently asked for, saveErr says a
\* save failed, totals[k] is the set of totals the in-memory spent of k held
\* right after an increment, lastInc[k] the in-memory total before and after
\* the latest increment of k, savedAt[k] the time of the latest upsert of k,
\* reclosed says a Close was issued after an earlier Close had returned,
\* reqs[k] counts the HTTP requests received for k, costs[k] is the set of
\* costs of the upstream responses to them (0 for a response without a price).
NoInc == [seen |-> FALSE, before |-> 0, after |-> 0]

HistInit(lim, budget) ==
  [epoch |-> 0, left |-> budget, bootTime |-> 0, loadErr |-> FALSE,
   requested |-> [k \in Keys |-> 0],
   limitStable |-> lim > 0, lastSet |-> lim, saveErr |-> FALSE,
   totals |-> [k \in Keys |-> {}],
   lastInc |-> [k \in Keys |-> NoInc],
   savedAt |-> [k \in Keys |-> 0],
   reclosed |-> FALSE,
   reqs |-> [k \in Keys |-> 0],
   costs |-> [k \in Keys |-> {}]]

Set(p, r) == [calls EXCEPT ![p] = r]
At(p, pc) == ~panicked /\ calls[p].pc = pc
\* an idle goroutine may issue a call
CanCall(p) == At(p, "idle") /\ hist.left > 0

RECURSIVE SumOver(_, _)
SumOver(S, f) == IF S = {} THEN 0
                 ELSE LET x == CHOOSE y \in S : TRUE IN f[x] + SumOver(S \ {x}, f)

SpentOf(k) == IF perKey[k] = 0 THEN 0 ELSE kws[perKey[k]].spent
\* deltas of the AddCost calls for k that have not yet written their sum
Pending(k) ==
  SumOver(Procs, [q \in Procs |->
    IF calls[q].fn = "AddCost" /\ calls[q].key = k THEN calls[q].delta ELSE 0])

\* a finished call: the goroutine is idle again and keeps what was returned
\* (Allow's four results, GetUsage's UsageInfoMoney, the slice of GetAllUsage
\* and GetAllUsageWithMaskedKeys, what the proxy handler answered; the others
\* return nothing)
Done(c) ==
  IF c.op = "Allow" THEN
    [Idle EXCEPT !.op = c.op, !.key = c.key, !.lim = c.lim, !.allowed = c.allowed,
                 !.spent = c.spent, !.windowEnd = c.windowEnd, !.stale = c.stale]
  ELSE IF c.op = "GetUsage" THEN
    [Idle EXCEPT !.op = c.op, !.key = c.key, !.lim = c.lim, !.allowed = c.allowed,
                 !.spent = c.spent, !.windowStart = c.windowStart,
                 !.windowEnd = c.windowEnd]
  ELSE IF c.op \in {"GetAllUsage", "GetAllUsageWithMaskedKeys"} THEN
    [Idle EXCEPT !.op = c.op, !.out = c.out]
  ELSE IF c.op = "ServeHTTP" THEN
    [Idle EXCEPT !.op = c.op, !.key = c.key, !.delta = c.delta, !.lim = c.lim,
                 !.allowed = c.allowed, !.spent = c.spent, !.windowEnd = c.windowEnd,
                 !.status = c.status, !.forwarded = c.forwarded]
  ELSE [Idle EXCEPT !.op = c.op, !.key = c.key, !.delta = c.delta]

\* ---- sync.Mutex / sync.RWMutex -------------------------------------------
MutexFree(id) == kws[id].mu = 0
\* variant: the save does not wait for p.mu
RWFree_Unlocked == TRUE
\* goroutine q holds p.mu.RLock()
Reading(q) == calls[q].op = "GetAllUsageWithMaskedKeys" /\ calls[q].pc # "idle"
\* p.mu.Lock() goes through: no writer and no reader holds p.mu
RWFree == mu = 0 /\ \A q \in Procs : ~Reading(q)

Expired(t, ws) == t - ws >= Hour

\* variant: the reset moves the window start but keeps the spend
ResetIfExpired_KeepsSpent(w, t) ==
  IF Expired(t, w.windowStart) THEN [w EXCEPT !.windowStart = t] ELSE w

\* variant: the window is reset whatever its age
ResetIfExpired_Always(w, t) == [w EXCEPT !.windowStart = t, !.spent = 0]

\* the window after `if now.Sub(kw.windowStart) >= time.Hour { reset }`
ResetIfExpired(w, t) ==
  IF Expired(t, w.windowStart) THEN [w EXCEPT !.windowStart = t, !.spent = 0] ELSE w

\* what Allow and GetUsage, run to completion from this state, return as
\* spentSoFar / Spent and as allowed
ReportedSpent(k) ==
  IF k = "" \/ IsNegative(limit) \/ IsZero(limit) \/ perKey[k] = 0 THEN 0
  ELSE ResetIfExpired(kws[perKey[k]], now).spent

ReportedAllowed(k) ==
  \/ k = "" \/ IsNegative(limit)
  \/ ~IsZero(limit) /\ LessThan(ReportedSpent(k), limit)

\* ---- ManagerMoney.getKWMoney ---------------------------------------------
\* lines 287-290: perKey.Load(key); on a miss the window to store starts at
\* time.Now()
GetKWLoad(c) ==
  IF perKey[c.key] # 0
    THEN [c EXCEPT !.kw = perKey[c.key], !.pc = "lock"]
    ELSE [c EXCEPT !.kwStart = now, !.pc = "getkw_store"]

\* variant: perKey.Store(key, kw), the new object replaces the stored one
LoadOrStore_Store(key, start) ==
  [id |-> Len(kws) + 1,
   heap |-> Append(kws, [mu |-> 0, windowStart |-> start, spent |-> 0]),
   map |-> [perKey EXCEPT ![key] = Len(kws) + 1]]

\* perKey.LoadOrStore(key, kw): the stored object wins over the new one
LoadOrStore(key, start) ==
  IF perKey[key] # 0
    THEN [id |-> perKey[key], heap |-> kws, map |-> perKey]
    ELSE [id |-> Len(kws) + 1,
          heap |-> Append(kws, [mu |-> 0, windowStart |-> start, spent |-> 0]),
          map |-> [perKey EXCEPT ![key] = Len(kws) + 1]]

\* lines 291-292
GetKWStore(p) ==
  /\ At(p, "getkw_store")
  /\ LET c == calls[p]
         r == LoadOrStore(c.key, c.kwStart) IN
       /\ kws' = r.heap
       /\ perKey' = r.map
       /\ calls' = Set(p, [c EXCEPT !.kw = r.id, !.pc = "lock"])
  /\ UNCHANGED <<now, limit, db, mu, stopChan, dbOpen, panicked, hist, pricing>>

\* ---- ManagerMoney.Allow --------------------------------------------------
\* variant: the proxy handler forwards the request whatever Allow returned
AfterAllow_Forwards(c) ==
  IF c.op = "Allow" THEN Done(c) ELSE [c EXCEPT !.fn = "none", !.pc = "proxy"]

\* a finished Allow returns to its caller; proxy_handler.go 239-244: on
\* !allowed the handler writes 429 and returns
AfterAllow(c) ==
  IF c.op = "Allow" THEN Done(c)
  ELSE IF ~c.allowed THEN Done([c EXCEPT !.status = 429])
  ELSE [c EXCEPT !.fn = "none", !.pc = "proxy"]

\* lines 234-244: the limit is read once; the early returns touch no window
AllowEnter(c) ==
  LET e == [c EXCEPT !.fn = "Allow", !.lim = limit] IN
    IF e.key = "" \/ IsNegative(e.lim)
      THEN AfterAllow([e EXCEPT !.allowed = TRUE, !.windowEnd = ZeroTime, !.spent = 0])
    ELSE IF IsZero(e.lim)
      THEN AfterAllow([e EXCEPT !.allowed = FALSE, !.windowEnd = now + Hour, !.spent = 0])
    ELSE GetKWLoad(e)

AllowBegin(p, k) ==
  /\ CanCall(p)
  /\ calls' = Set(p, AllowEnter([Idle EXCEPT !.op = "Allow", !.key = k]))
  /\ hist' = [hist EXCEPT !.left = @ - 1]
  /\ UNCHANGED <<now, limit, perKey, kws, db, mu, stopChan, dbOpen, panicked, pricing>>

\* lines 245-253: kw.mu.Lock(), the reset of an expired window, the result
AllowBody(p) ==
  /\ At(p, "lock") /\ calls[p].fn = "Allow"
  /\ MutexFree(calls[p].kw)
  /\ LET c == calls[p]
         w == ResetIfExpired(kws[c.kw], now) IN
       /\ kws' = [kws EXCEPT ![c.kw] = [w EXCEPT !.mu = p]]
       /\ calls' = Set(p, [c EXCEPT !.allowed = LessThan(w.spent, c.lim),
                                    !.windowEnd = w.windowStart + Hour,
                                    !.spent = w.spent, !.unow = now,
                                    !.pc = "unlock"])
  /\ UNCHANGED <<now, limit, perKey, db, mu, stopChan, dbOpen, panicked, hist, pricing>>

\* the deferred kw.mu.Unlock(), and the return
AllowUnlock(p) ==
  /\ At(p, "unlock")
  /\ kws' = [kws EXCEPT ![calls[p].kw].mu = 0]
  /\ calls' = Set(p, AfterAllow(calls[p]))
  /\ UNCHANGED <<now, limit, perKey, db, mu, stopChan, dbOpen, panicked, hist, pricing>>

\* ---- PersistentLimitManager.AddCostWithMaskedKey / ManagerMoney.AddCost --
\* persistence.go 207-211: the select on stopChan, after AddCost has returned
StopCheck(c) == IF stopChan THEN Done(c) ELSE [c EXCEPT !.fn = "none", !.pc = "sv_lock"]

\* variant: the guard lets a zero delta through
AddCostNoop_ZeroDelta(k, d) == IsNegative(d) \/ k = ""

\* variant: the guard forgets the empty key
AddCostNoop_AnyKey(k, d) == IsZero(d) \/ IsNegative(d)

\* limit.go 258, persistence.go 202
AddCostNoop(k, d) == IsZero(d) \/ IsNegative(d) \/ k = ""

\* limit.go 258-263, persistence.go 202-204: the guards on delta and key and
\* the first read of m.limit
AddCostEnter(c) ==
  IF AddCostNoop(c.key, c.delta) THEN Done(c)
  ELSE IF IsNegative(limit) THEN StopCheck(c)
  ELSE [c EXCEPT !.fn = "AddCost", !.pc = "limit_zero"]

\* the history once a charge of d for k has been issued
Requested(k, d) ==
  IF d > 0 /\ k # "" /\ hist.limitStable /\ now - hist.bootTime < Hour
    THEN [hist EXCEPT !.requested[k] = @ + d] ELSE hist

\* a charge is issued while the total charged to the key stays within maxTotal
AddCostWithin(maxTotal, p, k, mk, d) ==
  /\ CanCall(p)
  /\ d + SpentOf(k) + Pending(k) <= maxTotal
  /\ calls' = Set(p, AddCostEnter([Idle EXCEPT !.op = "AddCostWithMaskedKey", !.key = k,
                                               !.masked = mk, !.delta = d]))
  /\ hist' = [Requested(k, d) EXCEPT !.left = @ - 1]
  /\ UNCHANGED <<now, limit, perKey, kws, db, mu, stopChan, dbOpen, panicked, pricing>>

AddCostBegin(p, k, mk, d) == AddCostWithin(MaxSpent, p, k, mk, d)

\* persistence.go 191-194: AddCost passes an empty masked key
AddCost(p, k, d) == AddCostBegin(p, k, "", d)

\* limit.go 264-267: the second read of m.limit
AddCostLimitZero(p) ==
  /\ At(p, "limit_zero")
  /\ calls' = Set(p, IF IsZero(limit) THEN StopCheck(calls[p]) ELSE GetKWLoad(calls[p]))
  /\ UNCHANGED <<now, limit, perKey, kws, db, mu, stopChan, dbOpen, panicked, hist, pricing>>

\* limit.go 268-274: kw.mu.Lock(), the reset of an expired window and the
\* read of kw.spent
AddCostBody(p) ==
  /\ At(p, "lock") /\ calls[p].fn = "AddCost"
  /\ MutexFree(calls[p].kw)
  /\ LET c == calls[p]
         w == ResetIfExpired(kws[c.kw], now) IN
       /\ kws' = [kws EXCEPT ![c.kw] = [w EXCEPT !.mu = p]]
       /\ calls' = Set(p, [c EXCEPT !.tmp = w.spent, !.pc = "add"])
  /\ UNCHANGED <<now, limit, perKey, db, mu, stopChan, dbOpen, panicked, hist, pricing>>

\* limit.go 274-275: the write of kw.spent and kw.mu.Unlock()
AddCostAdd(p) ==
  /\ At(p, "add")
  /\ LET c == calls[p]
         total == Add(c.tmp, c.delta) IN
       /\ kws' = [kws EXCEPT ![c.kw].spent = total, ![c.kw].mu = 0]
       /\ calls' = Set(p, StopCheck([c EXCEPT !.own = total, !.tmp = 0,
                                               !.ownStart = kws[c.kw].windowStart]))
       /\ hist' = [hist EXCEPT !.totals[c.key] = @ \cup {total},
                               !.lastInc[c.key] = [seen |-> TRUE, before |-> c.tmp,
                                                   after |-> total]]
  /\ UNCHANGED <<now, limit, perKey, db, mu, stopChan, dbOpen, panicked, pricing>>

\* ---- handlers.NewProxyHandler ---------------------------------------------
\* prices an upstream response can come to
Costs == {d \in Deltas : ~IsNegative(d)}

\* proxy_handler.go 227-239: the key is taken from the Authorization header
\* and mgr.Allow(auth) is called before anything is forwarded
ServeHTTP(p, k) ==
  /\ CanCall(p)
  /\ calls' = Set(p, AllowEnter([Idle EXCEPT !.op = "ServeHTTP", !.key = k]))
  /\ hist' = [hist EXCEPT !.left = @ - 1, !.reqs[k] = @ + 1]
  /\ UNCHANGED <<now, limit, perKey, kws, db, mu, stopChan, dbOpen, panicked, pricing>>

\* a client that sends its next request once the previous one is answered
ServeNext(p, k) ==
  /\ \A q \in Procs : calls[q].pc = "idle"
  /\ ServeHTTP(p, k)

\* lines 246-251: proxy.ServeHTTP(w, r) sends the request upstream
ProxyServe(p) ==
  /\ At(p, "proxy")
  /\ calls' = Set(p, [calls[p] EXCEPT !.forwarded = TRUE, !.pc = "upstream"])
  /\ UNCHANGED <<now, limit, perKey, kws, db, mu, stopChan, dbOpen, panicked, hist, pricing>>

\* variant: the response is relayed and its price is dropped
ModifyResponse_NoCharge(p, d) ==
  /\ At(p, "upstream")
  /\ calls' = Set(p, Done([calls[p] EXCEPT !.delta = d, !.status = 200]))
  /\ hist' = [hist EXCEPT !.costs[calls[p].key] = @ \cup {d}]
  /\ UNCHANGED <<now, limit, perKey, kws, db, mu, stopChan, dbOpen, panicked, pricing>>

\* lines 161-211, proxy.ModifyResponse on a JSON response with usage: the
\* price is computed and, for a request with a key, mgr.AddCost(apiKey, price)
\* runs before the response goes back to the client
ModifyResponse(p, d) ==
  /\ At(p, "upstream")
  /\ SpentOf(calls[p].key) + Pending(calls[p].key) < MaxSpent
  /\ LET c == [calls[p] EXCEPT !.delta = d, !.masked = "", !.status = 200] IN
       /\ calls' = Set(p, IF c.key = "" THEN Done(c) ELSE AddCostEnter(c))
       /\ hist' = [Requested(c.key, d) EXCEPT !.costs[c.key] = @ \cup {d}]
  /\ UNCHANGED <<now, limit, perKey, kws, db, mu, stopChan, dbOpen, panicked, pricing>>

\* lines 171-217, the other responses (not JSON, a stream, no usage section,
\* no price): relayed, nothing is charged
RelayUnpriced(p) ==
  /\ At(p, "upstream")
  /\ calls' = Set(p, Done([calls[p] EXCEPT !.status = 200]))
  /\ hist' = [hist EXCEPT !.costs[calls[p].key] = @ \cup {0}]
  /\ UNCHANGED <<now, limit, perKey, kws, db, mu, stopChan, dbOpen, panicked, pricing>>

\* lines 221-223, proxy.ErrorHandler: the upstream call failed
ErrorHandler(p) ==
  /\ At(p, "upstream")
  /\ calls' = Set(p, Done([calls[p] EXCEPT !.status = 502]))
  /\ hist' = [hist EXCEPT !.costs[calls[p].key] = @ \cup {0}]
  /\ UNCHANGED <<now, limit, perKey, kws, db, mu, stopChan, dbOpen, panicked, pricing>>

\* ---- ManagerMoney.GetUsage -----------------------------------------------
\* lines 308-353: lim and now are read once; no window for the empty key, a
\* negative or a zero limit
GetUsageEnter(c) ==
  LET e == [c EXCEPT !.lim = limit, !.unow = now, !.fn = "GetUsage"] IN
    IF c.key = "" THEN
      [e EXCEPT !.spent = 0, !.windowStart = now, !.windowEnd = now + Hour,
                !.allowed = ~IsZero(limit), !.pc = "gu_done"]
    ELSE IF IsNegative(limit) THEN
      [e EXCEPT !.spent = 0, !.windowStart = now, !.windowEnd = now + Hour,
                !.allowed = TRUE, !.pc = "gu_done"]
    ELSE IF IsZero(limit) THEN
      [e EXCEPT !.spent = 0, !.windowStart = now, !.windowEnd = now + Hour,
                !.allowed = FALSE, !.pc = "gu_done"]
    ELSE GetKWLoad(e)

\* a finished GetUsage returns to its caller
AfterGetUsage(c) ==
  IF c.op = "GetUsage" THEN Done(c) ELSE [c EXCEPT !.fn = "none", !.pc = "save"]

GetUsageBegin(p, k) ==
  /\ CanCall(p)
  /\ LET c == GetUsageEnter([Idle EXCEPT !.op = "GetUsage", !.key = k]) IN
       calls' = Set(p, IF c.pc = "gu_done" THEN AfterGetUsage(c) ELSE c)
  /\ hist' = [hist EXCEPT !.left = @ - 1]
  /\ UNCHANGED <<now, limit, perKey, kws, db, mu, stopChan, dbOpen, panicked, pricing>>

\* lines 354-361, one critical section of kw.mu: reset against the `now`
\* read at entry, read of windowEnd and spent
GetUsageBody(p) ==
  /\ At(p, "lock") /\ calls[p].fn = "GetUsage"
  /\ MutexFree(calls[p].kw)
  /\ LET c == calls[p]
         w == ResetIfExpired(kws[c.kw], c.unow) IN
       /\ kws' = [kws EXCEPT ![c.kw] = w]
       /\ calls' = Set(p, [c EXCEPT !.windowEnd = w.windowStart + Hour,
                                    !.spent = w.spent, !.pc = "gu_ws"])
  /\ UNCHANGED <<now, limit, perKey, db, mu, stopChan, dbOpen, panicked, hist, pricing>>

\* lines 363-376: kw.windowStart is read again, after the unlock
GetUsageResult(p) ==
  /\ At(p, "gu_ws")
  /\ LET c == calls[p] IN
       calls' = Set(p, AfterGetUsage([c EXCEPT !.windowStart = kws[c.kw].windowStart,
                                               !.allowed = LessThan(c.spent, c.lim)]))
  /\ UNCHANGED <<now, limit, perKey, kws, db, mu, stopChan, dbOpen, panicked, hist, pricing>>

\* ---- ManagerMoney.GetAllUsage --------------------------------------------
\* the UsageInfoMoney appended at lines 402-410 of limit.go
UsageInfoMoney(c) ==
  [key |-> c.key, spent |-> c.spent, limit |-> c.lim, windowStart |-> c.windowStart,
   windowEnd |-> c.windowEnd, remaining |-> c.remaining, allowed |-> c.allowed]

\* lines 381-384: now is read once, then perKey.Range starts
GetAllUsageEnter(c) ==
  [c EXCEPT !.fn = "GetAllUsage", !.unow = now, !.idx = 1, !.out = <<>>,
            !.pc = "gau_range"]

\* a finished GetAllUsage returns to its caller
AfterGetAllUsage(c) ==
  IF c.op = "GetAllUsage" THEN Done(c) ELSE [c EXCEPT !.fn = "none", !.pc = "mk_query"]

GetAllUsageBegin(p) ==
  /\ CanCall(p)
  /\ calls' = Set(p, GetAllUsageEnter([Idle EXCEPT !.op = "GetAllUsage"]))
  /\ hist' = [hist EXCEPT !.left = @ - 1]
  /\ UNCHANGED <<now, limit, perKey, kws, db, mu, stopChan, dbOpen, panicked, pricing>>

\* line 384, perKey.Range: the keys are looked at one after the other, and a
\* key is visited when it is in the map at its turn
GetAllUsageRange(p) ==
  /\ At(p, "gau_range")
  /\ LET c == calls[p] IN
       calls' = Set(p,
         IF c.idx > Len(KeyOrder) THEN AfterGetAllUsage(c)
         ELSE IF perKey[KeyOrder[c.idx]] = 0 THEN [c EXCEPT !.idx = @ + 1]
         ELSE [c EXCEPT !.key = KeyOrder[c.idx], !.kw = perKey[KeyOrder[c.idx]],
                        !.pc = "gau_lock"])
  /\ UNCHANGED <<now, limit, perKey, kws, db, mu, stopChan, dbOpen, panicked, hist, pricing>>

\* lines 388-395, one critical section of kw.mu: reset against the `now`
\* read at entry, read of windowEnd and spent
GetAllUsageBody(p) ==
  /\ At(p, "gau_lock")
  /\ MutexFree(calls[p].kw)
  /\ LET c == calls[p]
         w == ResetIfExpired(kws[c.kw], c.unow) IN
       /\ kws' = [kws EXCEPT ![c.kw] = w]
       /\ calls' = Set(p, [c EXCEPT !.windowEnd = w.windowStart + Hour,
                                    !.spent = w.spent, !.remaining = 0,
                                    !.pc = "gau_gt"])
  /\ UNCHANGED <<now, limit, perKey, db, mu, stopChan, dbOpen, panicked, hist, pricing>>

\* line 398: m.limit is read for the comparison
GetAllUsageGreater(p) ==
  /\ At(p, "gau_gt")
  /\ calls' = Set(p, [calls[p] EXCEPT
                       !.pc = IF GreaterThan(limit, calls[p].spent)
                                THEN "gau_sub" ELSE "gau_lim"])
  /\ UNCHANGED <<now, limit, perKey, kws, db, mu, stopChan, dbOpen, panicked, hist, pricing>>

\* line 399: m.limit is read again for the difference
GetAllUsageSub(p) ==
  /\ At(p, "gau_sub")
  /\ calls' = Set(p, [calls[p] EXCEPT !.remaining = limit - calls[p].spent,
                                      !.pc = "gau_lim"])
  /\ UNCHANGED <<now, limit, perKey, kws, db, mu, stopChan, dbOpen, panicked, hist, pricing>>

\* lines 405-406: m.limit is read for the Limit field, then kw.windowStart,
\* after the unlock
GetAllUsageLimit(p) ==
  /\ At(p, "gau_lim")
  /\ calls' = Set(p, [calls[p] EXCEPT !.lim = limit, !.pc = "gau_start"])
  /\ UNCHANGED <<now, limit, perKey, kws, db, mu, stopChan, dbOpen, panicked, hist, pricing>>

GetAllUsageStart(p) ==
  /\ At(p, "gau_start")
  /\ calls' = Set(p, [calls[p] EXCEPT !.windowStart = kws[calls[p].kw].windowStart,
                                      !.pc = "gau_neg"])
  /\ UNCHANGED <<now, limit, perKey, kws, db, mu, stopChan, dbOpen, panicked, hist, pricing>>

\* the entry is appended and Range moves on
GetAllUsageAppend(c) ==
  [c EXCEPT !.out = Append(@, UsageInfoMoney(c)), !.idx = @ + 1, !.pc = "gau_range"]

\* line 409: m.limit.IsNegative() || ..., the left operand
GetAllUsageNegative(p) ==
  /\ At(p, "gau_neg")
  /\ calls' = Set(p, IF IsNegative(limit)
                       THEN GetAllUsageAppend([calls[p] EXCEPT !.allowed = TRUE])
                       ELSE [calls[p] EXCEPT !.pc = "gau_lt"])
  /\ UNCHANGED <<now, limit, perKey, kws, db, mu, stopChan, dbOpen, panicked, hist, pricing>>

\* line 409: spent.LessThan(m.limit), the right operand
GetAllUsageLess(p) ==
  /\ At(p, "gau_lt")
  /\ calls' = Set(p, GetAllUsageAppend(
                       [calls[p] EXCEPT !.allowed = LessThan(calls[p].spent, limit)]))
  /\ UNCHANGED <<now, limit, perKey, kws, db, mu, stopChan, dbOpen, panicked, hist, pricing>>

\* ---- PersistentLimitManager.GetAllUsageWithMaskedKeys ---------------------
\* persistence.go 254-258: p.mu.RLock() waits for a writer only, then
\* GetAllUsage runs
GetAllUsageWithMaskedKeysBegin(p) ==
  /\ CanCall(p)
  /\ mu = 0
  /\ calls' = Set(p, GetAllUsageEnter([Idle EXCEPT !.op = "GetAllUsageWithMaskedKeys"]))
  /\ hist' = [hist EXCEPT !.left = @ - 1]
  /\ UNCHANGED <<now, limit, perKey, kws, db, mu, stopChan, dbOpen, panicked, pricing>>

\* the keys returned by SELECT key, masked_key ... WHERE masked_key != ''
MaskedRows == SelectSeq(KeyOrder, LAMBDA k : db[k].present /\ db[k].masked # "")

\* lines 276-298: a row whose key is in the usage list gives an entry under
\* the masked key; the entries no row has processed follow as they are
MaskedResult(usage) ==
  LET InUsage(k) == \E i \in DOMAIN usage : usage[i].key = k
      usageMap(k) == usage[CHOOSE i \in DOMAIN usage :
                             /\ usage[i].key = k
                             /\ \A j \in DOMAIN usage : usage[j].key = k => j <= i]
      hits == SelectSeq(MaskedRows, InUsage)
      Unprocessed(e) == \A i \in DOMAIN hits : hits[i] # e.key
  IN [i \in DOMAIN hits |-> [usageMap(hits[i]) EXCEPT !.key = db[hits[i]].masked]]
       \o SelectSeq(usage, Unprocessed)

\* lines 266-300: the query and the join, then the deferred p.mu.RUnlock()
MaskedQuery(p) ==
  /\ At(p, "mk_query")
  /\ dbOpen
  /\ calls' = Set(p, Done([calls[p] EXCEPT !.out = MaskedResult(@)]))
  /\ UNCHANGED <<now, limit, perKey, kws, db, mu, stopChan, dbOpen, panicked, hist, pricing>>

\* lines 268-271: the query fails (always so on a closed handle) and the
\* in-memory list is returned as it is
MaskedQueryFail(p) ==
  /\ At(p, "mk_query")
  /\ calls' = Set(p, Done(calls[p]))
  /\ UNCHANGED <<now, limit, perKey, kws, db, mu, stopChan, dbOpen, panicked, hist, pricing>>

\* ---- PersistentLimitManager.saveKeyUsageWithMasked -----------------------
\* lines 221-225: p.mu.Lock() and the entry of GetUsage
SaveLock(p) ==
  /\ At(p, "sv_lock")
  /\ RWFree
  /\ mu' = p
  /\ LET c == GetUsageEnter(calls[p]) IN
       calls' = Set(p, IF c.pc = "gu_done" THEN AfterGetUsage(c) ELSE c)
  /\ UNCHANGED <<now, limit, perKey, kws, db, stopChan, dbOpen, panicked, hist, pricing>>

\* variant: the upsert writes the call's delta, not the total
UsageRow_Delta(c) ==
  [present |-> TRUE, masked |-> c.masked, windowStart |-> Unix(c.windowStart),
   spent |-> c.delta, lastUpdated |-> Unix(now)]

\* the row written by INSERT OR REPLACE
UsageRow(c) ==
  [present |-> TRUE, masked |-> c.masked, windowStart |-> Unix(c.windowStart),
   spent |-> c.spent, lastUpdated |-> Unix(now)]

\* lines 228-249: nothing to write for a zero total; otherwise one
\* transaction, which commits as a whole; then the deferred p.mu.Unlock()
SaveTx(p) ==
  /\ At(p, "save")
  /\ dbOpen \/ IsZero(calls[p].spent)
  /\ db' = IF IsZero(calls[p].spent) THEN db
           ELSE [db EXCEPT ![calls[p].key] = UsageRow(calls[p])]
  /\ mu' = 0
  /\ calls' = Set(p, Done(calls[p]))
  /\ hist' = IF IsZero(calls[p].spent) THEN hist
             ELSE [hist EXCEPT !.savedAt[calls[p].key] = now]
  /\ UNCHANGED <<now, limit, perKey, kws, stopChan, dbOpen, panicked, pricing>>

\* variant: a failed save takes the call's delta back out of the window
SaveFail_RollsBack(p) ==
  /\ At(p, "save")
  /\ ~IsZero(calls[p].spent)
  /\ mu' = 0
  /\ kws' = [kws EXCEPT ![perKey[calls[p].key]].spent = @ - calls[p].delta]
  /\ calls' = Set(p, Done(calls[p]))
  /\ hist' = [hist EXCEPT !.saveErr = TRUE]
  /\ UNCHANGED <<now, limit, perKey, db, stopChan, dbOpen, panicked, pricing>>

\* lines 233-247: Begin, Exec or Commit fails (always so on a closed
\* handle); nothing is written and the error is logged by the caller
SaveFail(p) ==
  /\ At(p, "save")
  /\ ~IsZero(calls[p].spent)
  /\ mu' = 0
  /\ calls' = Set(p, Done(calls[p]))
  /\ hist' = [hist EXCEPT !.saveErr = TRUE]
  /\ UNCHANGED <<now, limit, perKey, kws, db, stopChan, dbOpen, panicked, pricing>>

\* ---- ManagerMoney.UpdateLimit / UpdateLimitFromUSD -----------------------
\* variant: a lower limit is ignored
SetLimit_OnlyRaises(p, newLimit) ==
  /\ CanCall(p)
  /\ limit' = IF newLimit < limit THEN limit ELSE newLimit
  /\ calls' = [q \in Procs |->
       IF calls[q].op = "Allow" /\ newLimit # limit
         THEN [calls[q] EXCEPT !.stale = TRUE] ELSE calls[q]]
  /\ hist' = [hist EXCEPT !.left = @ - 1, !.limitStable = @ /\ newLimit = limit,
                          !.lastSet = newLimit]
  /\ UNCHANGED <<now, perKey, kws, db, mu, stopChan, dbOpen, panicked, pricing>>

\* variant: a new limit starts every window afresh
SetLimit_ResetsWindows(p, newLimit) ==
  /\ CanCall(p)
  /\ limit' = newLimit
  /\ kws' = [i \in DOMAIN kws |-> [kws[i] EXCEPT !.spent = 0]]
  /\ calls' = [q \in Procs |->
       IF calls[q].op = "Allow" /\ newLimit # limit
         THEN [calls[q] EXCEPT !.stale = TRUE] ELSE calls[q]]
  /\ hist' = [hist EXCEPT !.left = @ - 1, !.limitStable = @ /\ newLimit = limit,
                          !.lastSet = newLimit]
  /\ UNCHANGED <<now, perKey, db, mu, stopChan, dbOpen, panicked, pricing>>

\* m.limit = newLimit; the Allow calls that read the old limit are marked
SetLimit(p, newLimit) ==
  /\ CanCall(p)
  /\ limit' = newLimit
  /\ calls' = [q \in Procs |->
       IF calls[q].op = "Allow" /\ newLimit # limit
         THEN [calls[q] EXCEPT !.stale = TRUE] ELSE calls[q]]
  /\ hist' = [hist EXCEPT !.left = @ - 1, !.limitStable = @ /\ newLimit = limit,
                          !.lastSet = newLimit]
  /\ UNCHANGED <<now, perKey, kws, db, mu, stopChan, dbOpen, panicked, pricing>>

UpdateLimit(p, newLimit) == SetLimit(p, newLimit)

UpdateLimitFromUSD(p, newLimitUSD) ==
  SetLimit(p, IF newLimitUSD < 0 THEN -1 ELSE NewMoneyFromUSD(newLimitUSD))

\* ---- PersistentLimitManager.Close / cleanupOldRecords --------------------
\* variant: Close does not look at stopChan first
CloseBegin_NoSelect(p) ==
  /\ CanCall(p)
  /\ calls' = Set(p, [Idle EXCEPT !.op = "Close", !.pc = "close_chan"])
  /\ hist' = [hist EXCEPT !.left = @ - 1, !.reclosed = @ \/ ~dbOpen]
  /\ UNCHANGED <<now, limit, perKey, kws, db, mu, stopChan, dbOpen, panicked, pricing>>

\* lines 173-178: the select on stopChan
CloseBegin(p) ==
  /\ CanCall(p)
  /\ calls' = Set(p, LET c == [Idle EXCEPT !.op = "Close"] IN
                       IF stopChan THEN Done(c) ELSE [c EXCEPT !.pc = "close_chan"])
  /\ hist' = [hist EXCEPT !.left = @ - 1, !.reclosed = @ \/ ~dbOpen]
  /\ UNCHANGED <<now, limit, perKey, kws, db, mu, stopChan, dbOpen, panicked, pricing>>

\* line 177: close(p.stopChan) panics on a closed channel
CloseChan(p) ==
  /\ At(p, "close_chan")
  /\ IF stopChan
       THEN panicked' = TRUE /\ UNCHANGED <<stopChan, calls>>
       ELSE /\ stopChan' = TRUE
            /\ calls' = Set(p, [calls[p] EXCEPT !.pc = "cleanup"])
            /\ UNCHANGED panicked
  /\ UNCHANGED <<now, limit, perKey, kws, db, mu, dbOpen, hist, pricing>>

\* variant: the DELETE also takes the rows at the cutoff
CleanupKeeps_Inclusive(row, t) == ~(row.windowStart <= Unix(t - Day))

\* rows kept by DELETE FROM usage_tracking WHERE window_start < cutoff
CleanupKeeps(row, t) == ~(row.windowStart < Unix(t - Day))

\* lines 151-167 under p.mu; on a closed handle the Exec fails and is logged
CloseCleanup(p) ==
  /\ At(p, "cleanup")
  /\ RWFree
  /\ db' = IF dbOpen
             THEN [k \in Keys |-> IF db[k].present /\ ~CleanupKeeps(db[k], now)
                                    THEN NoRow ELSE db[k]]
             ELSE db
  /\ calls' = Set(p, [calls[p] EXCEPT !.pc = "db_close"])
  /\ UNCHANGED <<now, limit, perKey, kws, mu, stopChan, dbOpen, panicked, hist, pricing>>

\* line 186: p.db.Close()
CloseDb(p) ==
  /\ At(p, "db_close")
  /\ dbOpen' = FALSE
  /\ calls' = Set(p, Done(calls[p]))
  /\ UNCHANGED <<now, limit, perKey, kws, db, mu, stopChan, panicked, hist, pricing>>

\* ---- PersistentLimitManager.loadUsageData --------------------------------
\* the SELECT ... WHERE window_start > cutoff
LoadQuery(row, t) == row.present /\ row.windowStart > Unix(t - Hour)
\* variant: the comparison is inverted
StillActive_Inverted(row, t) == t - FromUnix(row.windowStart) >= Hour
\* the check on each scanned row
StillActive(row, t) == t - FromUnix(row.windowStart) < Hour
\* variant: every row is replayed, whatever its window
Replayed_AllRows(k, lim, t) ==
  /\ db[k].present
  /\ ~(IsZero(db[k].spent) \/ IsNegative(db[k].spent) \/ k = "")
  /\ ~IsNegative(lim) /\ ~IsZero(lim)

\* rows replayed as ManagerMoney.AddCost(key, spent) on the fresh manager
Replayed(k, lim, t) ==
  /\ LoadQuery(db[k], t) /\ StillActive(db[k], t)
  /\ ~(IsZero(db[k].spent) \/ IsNegative(db[k].spent) \/ k = "")
  /\ ~IsNegative(lim) /\ ~IsZero(lim)

\* variant: a row is replayed on top of its own total
RECURSIVE LoadFrom_Accumulates(_, _, _, _)
LoadFrom_Accumulates(i, lim, t, st) ==
  IF i > Len(KeyOrder) THEN st
  ELSE LET k == KeyOrder[i] IN
    LoadFrom_Accumulates(i + 1, lim, t,
      IF Replayed(k, lim, t)
        THEN [heap |-> Append(st.heap, [mu |-> 0, windowStart |-> t,
                                        spent |-> Add(db[k].spent, db[k].spent)]),
              map |-> [st.map EXCEPT ![k] = Len(st.heap) + 1]]
        ELSE st)

RECURSIVE LoadFrom(_, _, _, _)
LoadFrom(i, lim, t, st) ==
  IF i > Len(KeyOrder) THEN st
  ELSE LET k == KeyOrder[i] IN
    LoadFrom(i + 1, lim, t,
      IF Replayed(k, lim, t)
        THEN [heap |-> Append(st.heap, [mu |-> 0, windowStart |-> t,
                                        spent |-> Add(0, db[k].spent)]),
              map |-> [st.map EXCEPT ![k] = Len(st.heap) + 1]]
        ELSE st)

EmptyManager == [heap |-> <<>>, map |-> [k \in Keys |-> 0]]
loadUsageData(lim, t) == LoadFrom(1, lim, t, EmptyManager)

\* ---- process death and NewPersistentLimitManagerWithOptions --------------
\* The process may die in any state; the next process constructs a fresh
\* manager over the same database file and loads it (a failed load is only
\* logged).
ConstructWithin(restarts, lim, st, loadOk) ==
  /\ hist.epoch < restarts
  /\ limit' = lim
  /\ kws' = st.heap
  /\ perKey' = st.map
  /\ hist' = [epoch |-> hist.epoch + 1, left |-> hist.left,
              bootTime |-> now, loadErr |-> ~loadOk,
              requested |-> [k \in Keys |->
                IF lim > 0 /\ st.map[k] # 0 THEN st.heap[st.map[k]].spent ELSE 0],
              limitStable |-> lim > 0, lastSet |-> lim, saveErr |-> FALSE,
              totals |-> [k \in Keys |->
                IF st.map[k] # 0 THEN hist.totals[k] \cup {st.heap[st.map[k]].spent}
                ELSE hist.totals[k]],
              lastInc |-> [k \in Keys |->
                IF st.map[k] # 0
                  THEN [seen |-> TRUE, before |-> 0, after |-> st.heap[st.map[k]].spent]
                  ELSE NoInc],
              savedAt |-> hist.savedAt, reclosed |-> FALSE,
              reqs |-> [k \in Keys |-> 0],
              costs |-> [k \in Keys |-> {}]]
  /\ mu' = 0 /\ stopChan' = FALSE /\ dbOpen' = TRUE /\ panicked' = FALSE
  /\ calls' = [p \in Procs |-> Idle]
  /\ UNCHANGED <<now, db, pricing>>

Construct(lim, st, loadOk) == ConstructWithin(MaxRestarts, lim, st, loadOk)

\* the query of loadUsageData succeeds and every row is scanned, or the
\* query fails (persistence.go 112-115) and nothing is replayed
Restart(limitUSD, loadOk) ==
  LET lim == NewManagerMoneyFromUSD(limitUSD) IN
    Construct(lim, IF loadOk THEN loadUsageData(lim, now) ELSE EmptyManager, loadOk)

\* position of a key in the ORDER BY key of the query
KeyPos(k) == CHOOSE i \in DOMAIN KeyOrder : KeyOrder[i] = k

\* the manager when the iteration over the rows stops after the keys up to
\* position n: the rows scanned so far have been replayed
LoadedUpTo(n, lim, t) ==
  LET full == loadUsageData(lim, t)
      kept == {k \in Keys : KeyPos(k) <= n /\ full.map[k] # 0}
  IN [heap |-> SubSeq(full.heap, 1, Cardinality(kept)),
      map |-> [k \in Keys |-> IF k \in kept THEN full.map[k] ELSE 0]]

\* persistence.go 139-141: rows.Err() reports a failure of the iteration
\* after n keys; loadUsageData returns the error, the constructor logs it
RestartRowsErr(limitUSD, n) ==
  LET lim == NewManagerMoneyFromUSD(limitUSD) IN
    Construct(lim, LoadedUpTo(n, lim, now), FALSE)

\* ---- the clock ------------------------------------------------------------
AdvanceTime ==
  /\ now < MaxTime
  /\ now' = now + 1
  /\ hist' = IF now + 1 - hist.bootTime >= Hour
               THEN [hist EXCEPT !.requested = [k \in Keys |-> 0]] ELSE hist
  /\ UNCHANGED <<limit, perKey, kws, db, mu, stopChan, dbOpen, panicked, calls, pricing>>

\* a day passes with the process up
SleepDay ==
  /\ now <= MaxTime
  /\ now' = now + Day
  /\ hist' = [hist EXCEPT !.requested = [k \in Keys |-> 0]]
  /\ UNCHANGED <<limit, perKey, kws, db, mu, stopChan, dbOpen, panicked, calls, pricing>>

\* ---- pricing: configuration ----------------------------------------------
\* The configurations the package may have loaded (config.go 14-52).  Model
\* names are strings, here sequences of characters.  A rate is what the YAML
\* file gives, in half nano-units per token; a tier override is a pointer,
\* nil when set is FALSE.  err says that GetConfig fails (config.go 85-100),
\* hasDefault that Default is not nil.
Configs ==
  LET TierPricing(set, p, c, o) ==
        [set |-> set, Prompt |-> p, CachedPrompt |-> c, Completion |-> o]
      NoTier == TierPricing(FALSE, 0, 0, 0)
      ModelPricing(p, c, o, flex, priority, batch, aliases) ==
        [Prompt |-> p, CachedPrompt |-> c, Completion |-> o,
         Flex |-> flex, Priority |-> priority, Batch |-> batch, Aliases |-> aliases]
      Entry(k) ==
        IF k = <<>> THEN ModelPricing(13, 11, 15, NoTier, NoTier, NoTier, {})
        ELSE IF k = <<"a">> THEN
          ModelPricing(8, 3, 12, TierPricing(TRUE, 4, 1, 6), NoTier, NoTier, {<<"b", "b">>})
        ELSE ModelPricing(20, 9, 40, NoTier, TierPricing(TRUE, 60, 20, 80),
                          TierPricing(TRUE, 10, 5, 20), {})
      Default == ModelPricing(4, 2, 7, TierPricing(TRUE, 2, 1, 3), NoTier, NoTier, {})
  IN {[err |-> FALSE, Models |-> [k \in keys |-> Entry(k)],
       hasDefault |-> d, Default |-> Default] :
        keys \in SUBSET {<<>>, <<"a">>, <<"a", "b">>}, d \in BOOLEAN}
     \cup {[err |-> TRUE, Models |-> [k \in {} |-> Default],
            hasDefault |-> FALSE, Default |-> Default]}

\* config.go 176-209: ModelPricing.ToMoney rounds every rate to Money
ToMoney(mp) ==
  LET TierToMoney(t) ==
        [set |-> t.set, Prompt |-> NewMoneyFromUSD(t.Prompt),
         CachedPrompt |-> NewMoneyFromUSD(t.CachedPrompt),
         Completion |-> NewMoneyFromUSD(t.Completion)]
  IN [Prompt |-> NewMoneyFromUSD(mp.Prompt),
      CachedPrompt |-> NewMoneyFromUSD(mp.CachedPrompt),
      Completion |-> NewMoneyFromUSD(mp.Completion),
      Flex |-> TierToMoney(mp.Flex), Priority |-> TierToMoney(mp.Priority),
      Batch |-> TierToMoney(mp.Batch), Aliases |-> mp.Aliases]

\* the orders in which a range over a map with the keys S may visit them
Orders(S) == {o \in [1 .. Cardinality(S) -> S] : \A x \in S : \E i \in DOMAIN o : o[i] = x}

\* ---- pricing: model resolution ---------------------------------------------
\* variant: any configured prefix replaces the match
RECURSIVE PrefixLoop_AnyPrefix(_, _, _)
PrefixLoop_AnyPrefix(order, bestMatch, raw) ==
  IF order = <<>> THEN bestMatch
  ELSE LET configModel == Head(order) IN
       PrefixLoop_AnyPrefix(Tail(order),
         IF /\ Len(raw) >= Len(configModel)
            /\ SubSeq(raw, 1, Len(configModel)) = configModel
           THEN configModel ELSE bestMatch,
         raw)
\* pricing.go 90-97 and config.go 258-268: the range over cfg.Models, which
\* visits the keys in order
RECURSIVE PrefixLoop(_, _, _)
PrefixLoop(order, bestMatch, raw) ==
  IF order = <<>> THEN bestMatch
  ELSE LET configModel == Head(order) IN
       PrefixLoop(Tail(order),
         IF /\ Len(configModel) > Len(bestMatch)
            /\ Len(raw) >= Len(configModel)
            /\ SubSeq(raw, 1, Len(configModel)) = configModel
           THEN configModel ELSE bestMatch,
         raw)

\* pricing.go 75-105
resolveModelName(cfg, raw, order) ==
  IF cfg.err THEN raw
  ELSE IF raw \in DOMAIN cfg.Models THEN raw
  ELSE LET bestMatch == PrefixLoop(order, <<>>, raw) IN
       IF bestMatch # <<>> THEN bestMatch ELSE raw

\* config.go 250-275: the key whose pricing is returned, or found = FALSE
FindModelPricingMoney(cfg, modelName, order) ==
  IF modelName \in DOMAIN cfg.Models THEN [found |-> TRUE, key |-> modelName]
  ELSE LET bestMatch == PrefixLoop(order, <<>>, modelName) IN
       [found |-> bestMatch # <<>>, key |-> bestMatch]

\* ---- pricing: tiers and cost -----------------------------------------------
\* variant: a missing override answers under the requested tier's name
GetTierPricingMoney_KeepsName(mp, serviceTier) ==
  LET Rates(t, tier) == [prompt |-> t.Prompt, cachedPrompt |-> t.CachedPrompt,
                         completion |-> t.Completion, tier |-> tier]
  IN IF serviceTier = "flex" /\ mp.Flex.set THEN Rates(mp.Flex, "flex")
     ELSE IF serviceTier = "priority" /\ mp.Priority.set THEN Rates(mp.Priority, "priority")
     ELSE IF serviceTier = "batch" /\ mp.Batch.set THEN Rates(mp.Batch, "batch")
     ELSE Rates(mp, serviceTier)
\* config.go 230-247
GetTierPricingMoney(mp, serviceTier) ==
  LET Rates(t, tier) == [prompt |-> t.Prompt, cachedPrompt |-> t.CachedPrompt,
                         completion |-> t.Completion, tier |-> tier]
  IN IF serviceTier = "flex" /\ mp.Flex.set THEN Rates(mp.Flex, "flex")
     ELSE IF serviceTier = "priority" /\ mp.Priority.set THEN Rates(mp.Priority, "priority")
     ELSE IF serviceTier = "batch" /\ mp.Batch.set THEN Rates(mp.Batch, "batch")
     ELSE Rates(mp, "standard")

\* pricing.go 178-198: the rates with err = FALSE, or err = TRUE.  cfg.ToMoney
\* (config.go 212-227) converts every entry; the one looked at is converted.
getPricingMoney(cfg, model, serviceTier, order) ==
  IF cfg.err THEN [err |-> TRUE]
  ELSE LET f == FindModelPricingMoney(cfg, model, order) IN
       IF f.found
         THEN [err |-> FALSE,
               rates |-> GetTierPricingMoney(ToMoney(cfg.Models[f.key]), serviceTier)]
       ELSE IF cfg.hasDefault
         THEN [err |-> FALSE,
               rates |-> [GetTierPricingMoney(ToMoney(cfg.Default), serviceTier)
                            EXCEPT !.tier = "standard"]]
       ELSE [err |-> TRUE]

\* variant: the cached count is not clamped to the prompt tokens
ClampCached_Unclamped(cached, promptTokens) == cached
\* pricing.go 229-232
ClampCached(cached, promptTokens) ==
  IF cached > promptTokens THEN promptTokens ELSE cached

\* variant: an unknown model is charged one unit per prompt token
UnknownModelResult_Charged(m, u, serviceTier) ==
  [Model |-> m, ServiceTier |-> serviceTier, PromptTokens |-> u.PromptTokens,
   CompletionTokens |-> u.CompletionTokens, PromptCost |-> Multiply(1, u.PromptTokens),
   CompletionCost |-> 0, TotalCost |-> Multiply(1, u.PromptTokens),
   Note |-> <<"unknown model pricing">>, err |-> FALSE]
\* pricing.go 210-218: a PriceResultMoney (pricing.go 32-41) with the zero
\* Money in its costs, and a nil error; Note is the text in its pieces
UnknownModelResult(m, u, serviceTier) ==
  [Model |-> m, ServiceTier |-> serviceTier, PromptTokens |-> u.PromptTokens,
   CompletionTokens |-> u.CompletionTokens, PromptCost |-> 0,
   CompletionCost |-> 0, TotalCost |-> 0,
   Note |-> <<"unknown model pricing">>, err |-> FALSE]

\* pricing.go 206-264.  The rates of config.go 176-209 are per token, and
\* Money.Multiply takes the token count (part_004 53-55, part_003 34-35);
\* resolveOrder and findOrder are the orders of the two ranges over the map.
ComputePriceMoneyWithTier(cfg, modelRaw, u, serviceTier, resolveOrder, findOrder) ==
  LET m == resolveModelName(cfg, modelRaw, resolveOrder)
      g == getPricingMoney(cfg, m, serviceTier, findOrder)
      r == g.rates
      cached == ClampCached(u.PromptCachedTokens, u.PromptTokens)
      nonCachedTokens == u.PromptTokens - cached
      ptCost == IF u.PromptCachedTokens > 0
                  THEN Add(Multiply(r.prompt, nonCachedTokens),
                           Multiply(r.cachedPrompt, cached))
                  ELSE Multiply(r.prompt, u.PromptTokens)
      ctCost == Multiply(r.completion, u.CompletionTokens)
      note == <<"prices loaded from config; verify against https://openai.com/api/pricing/">>
                \o (IF r.tier # "standard"
                      THEN <<" (using ", r.tier, " tier pricing)">> ELSE <<>>)
                \o (IF u.PromptCachedTokens > 0
                      THEN <<" (includes cached prompt token pricing)">> ELSE <<>>)
  IN IF g.err THEN UnknownModelResult(m, u, serviceTier)
     ELSE [Model |-> m, ServiceTier |-> r.tier,
           PromptTokens |-> u.PromptTokens, CompletionTokens |-> u.CompletionTokens,
           PromptCost |-> ptCost, CompletionCost |-> ctCost,
           TotalCost |-> Add(ptCost, ctCost), Note |-> note, err |-> FALSE]

\* ---- pricing: usage parsers -------------------------------------------------
\* v, ok := field.(float64); int(v): the count of a number field, with the
\* fraction dropped (numbers are in halves), or the zero the Usage held
TokensOf(field) ==
  IF field.t # "number" THEN 0
  ELSE IF field.n >= 0 THEN field.n \div 2 ELSE -((-field.n) \div 2)

\* part_004 106-130 (Usage: pricing.go 9-13)
parseChatCompletionUsage(parsed) ==
  IF parsed.usage.t # "object" THEN [ok |-> FALSE]
  ELSE LET d == parsed.usage.prompt_tokens_details IN
       [PromptTokens |-> TokensOf(parsed.usage.prompt_tokens),
        CompletionTokens |-> TokensOf(parsed.usage.completion_tokens),
        PromptCachedTokens |-> IF d.t = "object" THEN TokensOf(d.cached_tokens) ELSE 0,
        ok |-> TRUE]
\* part_004 133-157
parseResponseAPIUsage(parsed) ==
  IF parsed.usage.t # "object" THEN [ok |-> FALSE]
  ELSE LET d == parsed.usage.input_tokens_details IN
       [PromptTokens |-> TokensOf(parsed.usage.input_tokens),
        CompletionTokens |-> TokensOf(parsed.usage.output_tokens),
        PromptCachedTokens |-> IF d.t = "object" THEN TokensOf(d.cached_tokens) ELSE 0,
        ok |-> TRUE]
\* part_004 89-104; objectType is "" unless the field is a string
ParseUsageFromResponse(parsed) ==
  LET objectType == IF parsed.object.t = "string" THEN parsed.object.s ELSE "" IN
  IF objectType = "chat.completion" THEN parseChatCompletionUsage(parsed)
  ELSE IF objectType = "response" THEN parseResponseAPIUsage(parsed)
  ELSE IF objectType = "" THEN parseChatCompletionUsage(parsed)
  ELSE [ok |-> FALSE]

\* ---- pricing: calls --------------------------------------------------------
MaxNameLen == 3        \* longest model name asked for
MaxTokens == 4         \* one-token charges in a run

\* What the calls are given.  names: the raw model names; tiers: the service
\* tiers asked for; usages: the token counts; rates: per-token rates;
\* payloads: decoded JSON bodies, as far as the parsers look at them.  In a
\* payload a field is absent, a number (in halves) or a string; a details
\* object and the usage section are absent, an object or another JSON value;
\* the object discriminator is absent, a string or a number.
Inputs ==
  LET Absent == [t |-> "absent", n |-> 0]
      Number(h) == [t |-> "number", n |-> h]
      NoDetails == [t |-> "absent", cached_tokens |-> Absent]
      Details(cached) == [t |-> "object", cached_tokens |-> cached]
      UsageSection(t, pt, ct, pd, it, ot, id) ==
        [t |-> t, prompt_tokens |-> pt, completion_tokens |-> ct,
         prompt_tokens_details |-> pd, input_tokens |-> it, output_tokens |-> ot,
         input_tokens_details |-> id]
      Empty(t) == UsageSection(t, Absent, Absent, NoDetails, Absent, Absent, NoDetails)
  IN [names |-> UNION {[1 .. n -> {"a", "b"}] : n \in 0 .. MaxNameLen},
      tiers |-> {"standard", "flex", "priority", "batch", "turbo"},
      usages |-> [PromptTokens : {-1, 0, 1, 3}, CompletionTokens : {0, 2},
                  PromptCachedTokens : {0, 1, 4}],
      rates |-> {-3, 0, 1, 50},
      payloads |->
        {[object |-> o, usage |-> u] :
           o \in {[t |-> "absent", s |-> ""], [t |-> "number", s |-> ""],
                  [t |-> "string", s |-> ""], [t |-> "string", s |-> "chat.completion"],
                  [t |-> "string", s |-> "response"], [t |-> "string", s |-> "embedding"]},
           u \in {Empty("absent"), Empty("null"), Empty("object"),
                  UsageSection("object", Number(4), Number(3), Details(Number(2)),
                               Absent, Absent, NoDetails),
                  UsageSection("object", Absent, Absent, NoDetails,
                               Number(6), Number(-1), Details(Number(8))),
                  UsageSection("object", Number(4), [t |-> "string", n |-> 0],
                               Details([t |-> "string", n |-> 0]),
                               Number(6), Number(2), NoDetails)}}]

\* The package state is the loaded configuration; op, in and out keep the
\* latest call with what it was given and what it returned.

\* resolveModelName(raw)
CallResolveModelName(raw, order) ==
  /\ pricing' = [pricing EXCEPT !.op = "resolveModelName", !.in = [raw |-> raw],
                   !.out = resolveModelName(pricing.config, raw, order)]
  /\ UNCHANGED <<now, limit, perKey, kws, db, mu, stopChan, dbOpen, panicked, calls, hist>>

\* mp.GetTierPricingMoney(serviceTier), mp the converted entry of key
CallGetTierPricingMoney(key, serviceTier) ==
  /\ pricing' = [pricing EXCEPT !.op = "GetTierPricingMoney",
                   !.in = [key |-> key, tier |-> serviceTier],
                   !.out = GetTierPricingMoney(ToMoney(pricing.config.Models[key]),
                                               serviceTier)]
  /\ UNCHANGED <<now, limit, perKey, kws, db, mu, stopChan, dbOpen, panicked, calls, hist>>

\* ComputePriceMoneyWithTier(modelRaw, u, serviceTier)
CallComputePriceMoneyWithTier(modelRaw, u, serviceTier, resolveOrder, findOrder) ==
  /\ pricing' = [pricing EXCEPT !.op = "ComputePriceMoneyWithTier",
                   !.in = [raw |-> modelRaw, usage |-> u, tier |-> serviceTier],
                   !.out = ComputePriceMoneyWithTier(pricing.config, modelRaw, u,
                             serviceTier, resolveOrder, findOrder)]
  /\ UNCHANGED <<now, limit, perKey, kws, db, mu, stopChan, dbOpen, panicked, calls, hist>>

\* ParseUsageFromResponse(parsed)
CallParseUsageFromResponse(parsed) ==
  /\ pricing' = [pricing EXCEPT !.op = "ParseUsageFromResponse", !.in = parsed,
                   !.out = ParseUsageFromResponse(parsed)]
  /\ UNCHANGED <<now, limit, perKey, kws, db, mu, stopChan, dbOpen, panicked, calls, hist>>

\* a run of one-token charges at rate r: the sum starts at the zero Money
AccumulateBegin(r) ==
  /\ pricing.op = "none"
  /\ pricing' = [pricing EXCEPT !.op = "Accumulate", !.in = [rate |-> r],
                   !.out = [acc |-> 0, n |-> 0]]
  /\ UNCHANGED <<now, limit, perKey, kws, db, mu, stopChan, dbOpen, panicked, calls, hist>>

\* the cost of one more token is added to the sum
AccumulateToken ==
  /\ pricing.op = "Accumulate"
  /\ pricing.out.n < MaxTokens
  /\ pricing' = [pricing EXCEPT !.out = [acc |-> Add(@.acc, Multiply(pricing.in.rate, 1)),
                                         n |-> @.n + 1]]
  /\ UNCHANGED <<now, limit, perKey, kws, db, mu, stopChan, dbOpen, panicked, calls, hist>>

\* ---- limit.Manager (the float64 limiter) ----------------------------------
\* src/limit/limit.go 28-43, Manager.Allow, run to completion: the amounts are
\* float64 values small enough to be exact; getKW (lines 61-68) stores a
\* window that starts now when the key has none
ManagerAllow(p, k) ==
  /\ CanCall(p)
  /\ LET c == [Idle EXCEPT !.op = "Allow", !.key = k, !.lim = limit] IN
       IF limit <= 0 \/ k = ""
         THEN /\ calls' = Set(p, Done([c EXCEPT !.allowed = TRUE, !.windowEnd = ZeroTime,
                                                !.spent = 0]))
              /\ UNCHANGED <<perKey, kws>>
         ELSE LET r == LoadOrStore(k, now)
                  w == ResetIfExpired(r.heap[r.id], now) IN
                /\ kws' = [r.heap EXCEPT ![r.id] = w]
                /\ perKey' = r.map
                /\ calls' = Set(p, Done([c EXCEPT !.allowed = w.spent < limit,
                                                  !.windowEnd = w.windowStart + Hour,
                                                  !.spent = w.spent]))
  /\ hist' = [hist EXCEPT !.left = @ - 1]
  /\ UNCHANGED <<now, limit, db, mu, stopChan, dbOpen, panicked, pricing>>

\* src/limit/limit.go 46-59, Manager.AddCost, run to completion
ManagerAddCost(p, k, delta) ==
  /\ CanCall(p)
  /\ delta + SpentOf(k) <= MaxSpent
  /\ IF delta <= 0 \/ k = "" \/ limit <= 0
       THEN UNCHANGED <<perKey, kws>>
       ELSE LET r == LoadOrStore(k, now)
                w == ResetIfExpired(r.heap[r.id], now) IN
              /\ kws' = [r.heap EXCEPT ![r.id] = [w EXCEPT !.spent = @ + delta]]
              /\ perKey' = r.map
  /\ calls' = Set(p, Done([Idle EXCEPT !.op = "AddCost", !.key = k, !.delta = delta]))
  /\ hist' = [hist EXCEPT !.left = @ - 1]
  /\ UNCHANGED <<now, limit, db, mu, stopChan, dbOpen, panicked, pricing>>

\* ---- specifications ------------------------------------------------------
\* the limiter after construction
InitLimiter(budget) ==
  /\ now = 0
  /\ \E h \in USDInputs : limit = NewManagerMoneyFromUSD(h)
  /\ perKey = [k \in Keys |-> 0]
  /\ kws = <<>>
  /\ db = [k \in Keys |-> NoRow]
  /\ mu = 0 /\ stopChan = FALSE /\ dbOpen = TRUE /\ panicked = FALSE
  /\ calls = [p \in Procs |-> Idle]
  /\ hist = HistInit(limit, budget)

\* no pricing configuration is loaded
InitWith(budget) ==
  /\ InitLimiter(budget)
  /\ pricing = [config |-> CHOOSE cfg \in Configs : cfg.err, op |-> "none",
                in |-> <<>>, out |-> <<>>]

Init == InitWith(MaxCalls)

\* the steps inside Allow
AllowSteps ==
  \/ \E p \in Procs : AllowBody(p)
  \/ \E p \in Procs : AllowUnlock(p)

\* the steps inside AddCostWithMaskedKey
AddCostSteps ==
  \/ \E p \in Procs : GetKWStore(p)
  \/ \E p \in Procs : AddCostLimitZero(p)
  \/ \E p \in Procs : AddCostBody(p)
  \/ \E p \in Procs : AddCostAdd(p)
  \/ \E p \in Procs : GetUsageBody(p)
  \/ \E p \in Procs : GetUsageResult(p)
  \/ \E p \in Procs : SaveLock(p)
  \/ \E p \in Procs : SaveTx(p)

Steps == AllowSteps \/ AddCostSteps

\* the steps inside GetAllUsage
GetAllUsageSteps ==
  \/ \E p \in Procs : GetAllUsageRange(p)
  \/ \E p \in Procs : GetAllUsageBody(p)
  \/ \E p \in Procs : GetAllUsageGreater(p)
  \/ \E p \in Procs : GetAllUsageSub(p)
  \/ \E p \in Procs : GetAllUsageLimit(p)
  \/ \E p \in Procs : GetAllUsageStart(p)
  \/ \E p \in Procs : GetAllUsageNegative(p)
  \/ \E p \in Procs : GetAllUsageLess(p)

\* every operation, any goroutine, any input
Next ==
  \/ \E p \in Procs, k \in Keys : AllowBegin(p, k)
  \/ \E p \in Procs, k \in Keys, mk \in MaskedKeys, d \in Deltas : AddCostBegin(p, k, mk, d)
  \/ \E p \in Procs, k \in Keys : GetUsageBegin(p, k)
  \/ Steps
  \/ \E p \in Procs : SaveFail(p)
  \/ \E p \in Procs, l \in MoneyLimits : UpdateLimit(p, l)
  \/ \E p \in Procs, h \in USDInputs : UpdateLimitFromUSD(p, h)
  \/ \E p \in Procs : CloseBegin(p)
  \/ \E p \in Procs : CloseChan(p)
  \/ \E p \in Procs : CloseCleanup(p)
  \/ \E p \in Procs : CloseDb(p)
  \/ \E h \in USDInputs, ok \in BOOLEAN : Restart(h, ok)
  \/ AdvanceTime

Spec == Init /\ [][Next]_vars

\* concurrent AddCostWithMaskedKey calls only
NextAdd ==
  \/ \E p \in Procs, k \in Keys, mk \in MaskedKeys, d \in Deltas : AddCostBegin(p, k, mk, d)
  \/ AddCostSteps
  \/ AdvanceTime

SpecAdd == Init /\ [][NextAdd]_vars

\* charges, admission checks and limit updates
NextLimiter ==
  \/ \E p \in Procs, k \in Keys : AllowBegin(p, k)
  \/ \E p \in Procs, k \in Keys, mk \in MaskedKeys, d \in Deltas : AddCostBegin(p, k, mk, d)
  \/ Steps
  \/ \E p \in Procs, l \in MoneyLimits : UpdateLimit(p, l)
  \/ \E p \in Procs, h \in USDInputs : UpdateLimitFromUSD(p, h)
  \/ AdvanceTime

SpecLimiter == Init /\ [][NextLimiter]_vars

\* the same within one window (the clock stands still), one more call
NextUpdate ==
  \/ \E p \in Procs, k \in Keys : AllowBegin(p, k)
  \/ \E p \in Procs, k \in Keys, mk \in MaskedKeys, d \in Deltas : AddCostBegin(p, k, mk, d)
  \/ Steps
  \/ \E p \in Procs, l \in MoneyLimits : UpdateLimit(p, l)
  \/ \E p \in Procs, h \in USDInputs : UpdateLimitFromUSD(p, h)

SpecUpdate == InitWith(MaxCalls + 2) /\ [][NextUpdate]_vars

\* charges, failing saves, limit updates and Close
NextStore ==
  \/ \E p \in Procs, k \in Keys, mk \in MaskedKeys, d \in Deltas : AddCostBegin(p, k, mk, d)
  \/ AddCostSteps
  \/ \E p \in Procs : SaveFail(p)
  \/ \E p \in Procs, l \in MoneyLimits : UpdateLimit(p, l)
  \/ \E p \in Procs : CloseBegin(p)
  \/ \E p \in Procs : CloseChan(p)
  \/ \E p \in Procs : CloseCleanup(p)
  \/ \E p \in Procs : CloseDb(p)
  \/ AdvanceTime

SpecStore == Init /\ [][NextStore]_vars

\* charges and Close, a day apart
NextCleanup ==
  \/ \E p \in Procs, k \in Keys, mk \in MaskedKeys, d \in Deltas : AddCostBegin(p, k, mk, d)
  \/ AddCostSteps
  \/ \E p \in Procs : CloseBegin(p)
  \/ \E p \in Procs : CloseChan(p)
  \/ \E p \in Procs : CloseCleanup(p)
  \/ \E p \in Procs : CloseDb(p)
  \/ AdvanceTime
  \/ SleepDay

SpecCleanup == Init /\ [][NextCleanup]_vars

\* usage lists next to charges and limit updates, within one window
NextUsage ==
  \/ \E p \in Procs, k \in Keys, mk \in MaskedKeys, d \in Deltas : AddCostBegin(p, k, mk, d)
  \/ \E p \in Procs : GetAllUsageBegin(p)
  \/ AddCostSteps
  \/ GetAllUsageSteps
  \/ \E p \in Procs, l \in MoneyLimits : UpdateLimit(p, l)

SpecUsage == InitWith(MaxCalls + 1) /\ [][NextUsage]_vars

\* usage reports next to charges
NextReport ==
  \/ \E p \in Procs, k \in Keys, mk \in MaskedKeys, d \in Deltas : AddCostBegin(p, k, mk, d)
  \/ \E p \in Procs, k \in Keys : GetUsageBegin(p, k)
  \/ \E p \in Procs : GetAllUsageBegin(p)
  \/ AddCostSteps
  \/ GetAllUsageSteps
  \/ AdvanceTime

SpecReport == Init /\ [][NextReport]_vars

\* the masked usage list next to charges and admission checks
NextMasked ==
  \/ \E p \in Procs, k \in Keys : AllowBegin(p, k)
  \/ \E p \in Procs, k \in Keys, d \in Deltas : AddCost(p, k, d)
  \/ \E p \in Procs, k \in Keys, mk \in MaskedKeys, d \in Deltas : AddCostBegin(p, k, mk, d)
  \/ \E p \in Procs : GetAllUsageWithMaskedKeysBegin(p)
  \/ Steps
  \/ GetAllUsageSteps
  \/ \E p \in Procs : MaskedQuery(p)
  \/ \E p \in Procs : MaskedQueryFail(p)

SpecMasked == Init /\ [][NextMasked]_vars

\* charges and restarts whose load may fail halfway
NextLoad ==
  \/ \E p \in Procs, k \in Keys, mk \in MaskedKeys, d \in Deltas : AddCostBegin(p, k, mk, d)
  \/ AddCostSteps
  \/ \E h \in USDInputs, ok \in BOOLEAN : Restart(h, ok)
  \/ \E h \in USDInputs, n \in 0 .. Len(KeyOrder) : RestartRowsErr(h, n)
  \/ AdvanceTime

SpecLoad == Init /\ [][NextLoad]_vars

\* HTTP requests through the proxy handler
NextProxy ==
  \/ \E p \in Procs, k \in Keys : ServeHTTP(p, k)
  \/ Steps
  \/ \E p \in Procs : ProxyServe(p)
  \/ \E p \in Procs, d \in Costs : ModifyResponse(p, d)
  \/ \E p \in Procs : RelayUnpriced(p)
  \/ \E p \in Procs : ErrorHandler(p)
  \/ AdvanceTime

SpecProxy == Init /\ [][NextProxy]_vars

\* the same with requests sent one after the other
NextSerial ==
  \/ \E p \in Procs, k \in Keys : ServeNext(p, k)
  \/ Steps
  \/ \E p \in Procs : ProxyServe(p)
  \/ \E p \in Procs, d \in Costs : ModifyResponse(p, d)
  \/ \E p \in Procs : RelayUnpriced(p)
  \/ \E p \in Procs : ErrorHandler(p)
  \/ AdvanceTime

SpecSerial == InitWith(MaxCalls + 1) /\ [][NextSerial]_vars

\* charges and restarts
\* the pricing package: one call on a loaded configuration
NextPricing ==
  \/ /\ pricing.op = "none"
     /\ \E raw \in Inputs.names, order \in Orders(DOMAIN pricing.config.Models) :
          CallResolveModelName(raw, order)
  \/ /\ pricing.op = "none"
     /\ \E key \in DOMAIN pricing.config.Models, t \in Inputs.tiers :
          CallGetTierPricingMoney(key, t)
  \/ /\ pricing.op = "none"
     /\ \E raw \in Inputs.names, u \in Inputs.usages, t \in Inputs.tiers,
           o1 \in Orders(DOMAIN pricing.config.Models),
           o2 \in Orders(DOMAIN pricing.config.Models) :
          CallComputePriceMoneyWithTier(raw, u, t, o1, o2)
  \/ /\ pricing.op = "none"
     /\ \E parsed \in Inputs.payloads : CallParseUsageFromResponse(parsed)
  \/ \E r \in Inputs.rates : AccumulateBegin(r)
  \/ AccumulateToken

\* the limiter is left alone, with its limit at zero
InitPricing ==
  /\ InitLimiter(MaxCalls) /\ limit = 0
  /\ \E cfg \in Configs : pricing = [config |-> cfg, op |-> "none",
                                      in |-> <<>>, out |-> <<>>]

SpecPricing == InitPricing /\ [][NextPricing]_vars

\* the float64 limiter: admission checks and charges
NextFloat ==
  \/ \E p \in Procs, k \in Keys : ManagerAllow(p, k)
  \/ \E p \in Procs, k \in Keys, d \in Deltas : ManagerAddCost(p, k, d)
  \/ AdvanceTime

\* limit.NewManager(limit), then calls
SpecFloat == InitWith(MaxCalls + 1) /\ [][NextFloat]_vars

\* the steps of the calls in progress
LiveSteps ==
  \/ Steps
  \/ GetAllUsageSteps
  \/ \E p \in Procs : MaskedQuery(p)
  \/ \E p \in Procs : MaskedQueryFail(p)
  \/ \E p \in Procs : SaveFail(p)
  \/ \E p \in Procs : CloseChan(p)
  \/ \E p \in Procs : CloseCleanup(p)
  \/ \E p \in Procs : CloseDb(p)

\* concurrent calls of every operation that takes a lock, and UpdateLimit
NextLive ==
  \/ \E p \in Procs, k \in Keys : AllowBegin(p, k)
  \/ \E p \in Procs, k \in Keys, mk \in MaskedKeys, d \in Deltas : AddCostBegin(p, k, mk, d)
  \/ \E p \in Procs, k \in Keys : GetUsageBegin(p, k)
  \/ \E p \in Procs : GetAllUsageWithMaskedKeysBegin(p)
  \/ \E p \in Procs, l \in MoneyLimits : UpdateLimit(p, l)
  \/ \E p \in Procs : CloseBegin(p)
  \/ LiveSteps

\* the scheduler runs every goroutine that can take a step: a call in
\* progress is not left waiting for ever while one of its steps is possible
SpecLive == Init /\ [][NextLive]_vars /\ WF_vars(LiveSteps)

\* admission checks and charges of any amount, up to the largest one
NextOverflow ==
  \/ \E p \in Procs, k \in Keys : AllowBegin(p, k)
  \/ \E p \in Procs, k \in Keys, mk \in MaskedKeys, d \in {1, MaxMoney} :
       AddCostWithin(2 * MaxMoney, p, k, mk, d)
  \/ Steps

SpecOverflow == InitWith(MaxCalls + 1) /\ [][NextOverflow]_vars

\* charges and restarts; one restart more when the loads succeed
NextRestart ==
  \/ \E p \in Procs, k \in Keys, mk \in MaskedKeys, d \in Deltas : AddCostBegin(p, k, mk, d)
  \/ AddCostSteps
  \/ \E h \in USDInputs, ok \in BOOLEAN : Restart(h, ok)
  \/ \E h \in USDInputs :
       /\ hist.epoch > 0 /\ ~hist.loadErr
       /\ ConstructWithin(MaxRestarts + 1, NewManagerMoneyFromUSD(h),
                          loadUsageData(NewManagerMoneyFromUSD(h), now), TRUE)
  \/ AdvanceTime

SpecRestart == Init /\ [][NextRestart]_vars

\* ---- properties ----------------------------------------------------------
Finished(p, op) == calls[p].pc = "idle" /\ calls[p].op = op
\* goroutine p is inside ManagerMoney.AddCost for k, before its write
Incrementing(p, k) == calls[p].fn = "AddCost" /\ calls[p].key = k
\* goroutine p is inside saveKeyUsageWithMasked, past p.mu.Lock()
InSave(p) ==
  /\ calls[p].op = "AddCostWithMaskedKey"
  /\ calls[p].fn = "GetUsage" \/ calls[p].pc = "save"
\* a step that replaces the process by a new one
IsRestart == hist'.epoch = hist.epoch + 1
\* the store's total for k: a missing row counts as no spend
StoreTotal(k) == IF db[k].present THEN db[k].spent ELSE 0
\* age at time t of the window a row describes
RowAge(k, t) == t - FromUnix(db[k].windowStart)

\* C1: no lost updates.  With a positive, unchanged limit and no window
\* expiry since construction, whenever no AddCost call for a non-empty key is
\* between its entry and its write, the key's in-memory spent is the exact
\* sum of the positive deltas of all the AddCost calls issued for it,
\* whatever the interleaving and whether or not the key was known before.
C1_NoLostUpdates ==
  \A k \in Keys \ {""} :
    (/\ hist.limitStable
     /\ now - hist.bootTime < Hour
     /\ \A p \in Procs : ~Incrementing(p, k))
    => SpentOf(k) = hist.requested[k]

\* two calls for the same key overlap, both past their increment
C1_Witness ==
  \E k \in Keys \ {""} :
    /\ hist.limitStable /\ now - hist.bootTime < Hour
    /\ \A p \in Procs : /\ calls[p].op = "AddCostWithMaskedKey"
                        /\ calls[p].key = k
                        /\ calls[p].pc \in {"sv_lock", "save"}
                        /\ calls[p].delta > 0
    /\ SpentOf(k) = SumOver(Procs, [p \in Procs |-> calls[p].delta])
    /\ SpentOf(k) = MaxSpent

\* C2: the Allow decision.  For a non-empty key Allow returns allowed=false
\* exactly when the limit it read is zero, or is positive with the key's
\* spent at least the limit; allowed=true for a negative limit and for a
\* positive limit with spent below it.  The spent it compares is the key's
\* spent in its window after the reset of an expired window, read under the
\* key's mutex.
C2_AllowDecision ==
  \A p \in Procs :
    /\ (Finished(p, "Allow") /\ calls[p].key # "") =>
         /\ calls[p].allowed <=>
              ~(calls[p].lim = 0 \/ (calls[p].lim > 0 /\ calls[p].spent >= calls[p].lim))
         /\ calls[p].lim < 0 => calls[p].allowed
         /\ (calls[p].lim > 0 /\ calls[p].spent < calls[p].lim) => calls[p].allowed
    /\ (calls[p].pc = "unlock" /\ ~panicked) =>
         /\ calls[p].key # "" /\ calls[p].lim > 0
         /\ kws[calls[p].kw].mu = p
         /\ perKey[calls[p].key] = calls[p].kw
         /\ ~Expired(calls[p].unow, kws[calls[p].kw].windowStart)
         /\ calls[p].spent = kws[calls[p].kw].spent
         /\ calls[p].windowEnd = kws[calls[p].kw].windowStart + Hour
         /\ calls[p].allowed <=> calls[p].spent < calls[p].lim

\* an Allow denied because the key's spent has reached a positive limit
C2_Witness ==
  \E p \in Procs :
    /\ Finished(p, "Allow") /\ calls[p].key # ""
    /\ calls[p].lim > 0 /\ calls[p].spent = calls[p].lim
    /\ ~calls[p].allowed

\* C3: anonymous bypass.  In every state reached by Allow and
\* AddCostWithMaskedKey calls the empty key has no in-memory window and no
\* store row, and every Allow("") has returned allowed=true with
\* spentSoFar=0 (and the zero time as window end), whatever the limit.
C3_AnonymousBypass ==
  /\ perKey[""] = 0
  /\ ~db[""].present
  /\ \A p \in Procs :
       (Finished(p, "Allow") /\ calls[p].key = "") =>
         calls[p].allowed /\ calls[p].spent = 0 /\ calls[p].windowEnd = ZeroTime

\* a charge against the empty key has returned, and an Allow("") under a
\* zero limit
C3_Witness ==
  \E p \in Procs, q \in Procs :
    /\ Finished(p, "AddCostWithMaskedKey") /\ calls[p].key = "" /\ calls[p].delta > 0
    /\ Finished(q, "Allow") /\ calls[q].key = "" /\ calls[q].lim = 0
    /\ calls[q].allowed

\* C4 as stated: when the row of a key was written less than one hour before
\* the restart, the new manager (given a positive limit and a load that
\* succeeds) reports the row's spent for the key.
C4_RecordedWithinHour ==
  [][(IsRestart /\ limit' > 0 /\ ~hist'.loadErr) =>
       \A k \in Keys \ {""} :
         (db[k].present /\ now' - hist.savedAt[k] < Hour)
         => ReportedSpent(k)' = db[k].spent]_vars

\* C4, amended: when the new manager has a positive limit and its load
\* succeeds, it reports the row's spent for every key whose row carries a
\* window start less than one hour before the restart.
C4_RestartRecovery ==
  [][(IsRestart /\ limit' > 0 /\ ~hist'.loadErr) =>
       \A k \in Keys \ {""} :
         (db[k].present /\ RowAge(k, now') < Hour)
         => /\ SpentOf(k)' = db[k].spent
            /\ ReportedSpent(k)' = db[k].spent
            /\ ReportedAllowed(k)' <=> db[k].spent < limit']_vars

\* a new manager that has just loaded a row written by the previous process
C4_Witness ==
  \E k \in Keys \ {""} :
    /\ hist.epoch = 1 /\ ~hist.loadErr /\ limit > 0
    /\ \A p \in Procs : calls[p] = Idle
    /\ db[k].present /\ RowAge(k, hist.bootTime) < Hour
    /\ now > hist.bootTime
    /\ db[k].spent > 0
    /\ ReportedSpent(k) = db[k].spent

\* C5: restart amnesia.  A row whose window start is one hour or more before
\* the restart is not replayed: the new manager has no window for the key,
\* reports spent 0 and, with a positive limit, allows the key.
C5_RestartAmnesia ==
  [][IsRestart =>
       \A k \in Keys :
         (db[k].present /\ RowAge(k, now') >= Hour)
         => /\ perKey'[k] = 0
            /\ ReportedSpent(k)' = 0
            /\ limit' > 0 => ReportedAllowed(k)']_vars

\* a new manager with a positive limit over a store that holds an expired row
C5_Witness ==
  \E k \in Keys \ {""} :
    /\ hist.epoch = 1 /\ ~hist.loadErr /\ limit > 0
    /\ \A p \in Procs : calls[p] = Idle
    /\ db[k].present /\ db[k].spent > 0
    /\ RowAge(k, hist.bootTime) >= Hour
    /\ perKey[k] = 0 /\ ReportedSpent(k) = 0 /\ ReportedAllowed(k)

\* C6: the store mirrors memory.  Whenever no AddCostWithMaskedKey call is
\* in flight, no save has failed, the manager has not been closed and the
\* limit has been positive and unchanged, every key with a positive
\* in-memory spent has a row whose spent is that total.
C6_StoreMirrorsMemory ==
  (/\ \A p \in Procs : calls[p].op = "AddCostWithMaskedKey" => calls[p].pc = "idle"
   /\ ~hist.saveErr /\ ~stopChan /\ dbOpen
   /\ hist.limitStable)
  => \A k \in Keys :
       SpentOf(k) > 0 => db[k].present /\ db[k].spent = SpentOf(k)

\* two charges for one key have returned and the row holds their sum
C6_Witness ==
  \E k \in Keys \ {""} :
    /\ \A p \in Procs : Finished(p, "AddCostWithMaskedKey") /\ calls[p].key = k
    /\ calls[1].delta = 1 /\ calls[2].delta = 2
    /\ ~hist.saveErr /\ ~stopChan /\ dbOpen /\ hist.limitStable
    /\ SpentOf(k) = 3 /\ db[k].present /\ db[k].spent = 3

\* C7 as stated: the total a call is about to write is the total its own
\* increment produced.
C7_WritesOwnTotal ==
  \A p \in Procs :
    (calls[p].pc = "save" /\ ~IsZero(calls[p].spent)) => calls[p].spent = calls[p].own

\* C7, amended: the increment is done before p.mu is taken; only the read of
\* the key's current total and the upsert form one critical section of p.mu.
\* No other call's save falls inside it, and the total written is, in the
\* window of the call's own increment, at least the total that increment
\* produced.
C7_SaveSection ==
  /\ \A p \in Procs : InSave(p) => mu = p
  /\ mu # 0 => InSave(mu)
  /\ \A p \in Procs :
       (calls[p].pc = "save" /\ calls[p].windowEnd = calls[p].ownStart + Hour)
       => calls[p].spent >= calls[p].own

\* a call about to write a total that includes another call's increment
C7_Witness ==
  \E p \in Procs :
    /\ calls[p].pc = "save" /\ mu = p
    /\ calls[p].own > 0 /\ calls[p].spent > calls[p].own

\* C8 as stated: when the process dies, the store's total of every key is
\* the in-memory total after the key's latest increment or the total just
\* before that increment.
C8_OneIncrementBehind ==
  [][IsRestart =>
       \A k \in Keys :
         hist.lastInc[k].seen =>
           StoreTotal(k) \in {hist.lastInc[k].after, hist.lastInc[k].before}]_vars

\* C8, amended: at every point at which the process may die, the spent of
\* every row is a total the key's in-memory spent held right after one of its
\* increments (never a partial value, a delta or more than was charged); it
\* may be more than one increment behind.
C8_RowIsSomeTotal ==
  \A k \in Keys :
    db[k].present => db[k].spent \in hist.totals[k]

\* the process died between an increment and its save: the row the new
\* process found is behind the total the old one had reached
C8_Witness ==
  \E k \in Keys \ {""} :
    /\ hist.epoch = 1 /\ now = 0
    /\ \A p \in Procs : calls[p] = Idle
    /\ db[k].present
    /\ \E t \in hist.totals[k] : t > db[k].spent

\* C9: UpdateLimit takes effect immediately.  Every Allow that read the
\* limit after the latest UpdateLimit returned has read that limit and
\* decides against it: with spent s, denied when 0 < L <= s, allowed when
\* s < L.
C9_LimitTakesEffect ==
  \A p \in Procs :
    (calls[p].op = "Allow" /\ ~calls[p].stale) =>
      /\ calls[p].lim = hist.lastSet
      /\ (Finished(p, "Allow") /\ calls[p].key # "" /\ hist.lastSet > 0) =>
           (calls[p].allowed <=> calls[p].spent < hist.lastSet)

\* the same key with the same spent: allowed before the limit was lowered,
\* denied by the Allow issued after
C9_Witness ==
  \E p \in Procs, q \in Procs :
    /\ Finished(p, "Allow") /\ calls[p].stale /\ calls[p].allowed
    /\ Finished(q, "Allow") /\ ~calls[q].stale /\ ~calls[q].allowed
    /\ calls[p].key = calls[q].key /\ calls[p].key # ""
    /\ calls[p].spent = calls[q].spent /\ calls[q].spent > 0
    /\ calls[q].lim > 0 /\ calls[q].lim <= calls[q].spent

\* C10: UpdateLimit changes only the limit.  A step that changes the limit
\* of a running manager leaves every key's window object, the key table and
\* every store row as they were.
C10_OnlyTheLimit ==
  [][(limit' # limit /\ hist'.epoch = hist.epoch) =>
       UNCHANGED <<perKey, kws, db, mu, stopChan, dbOpen>>]_vars

\* a limit lowered to zero or below after a key was charged: the key's window
\* and row are still there
C10_Witness ==
  \E k \in Keys \ {""} :
    /\ hist.epoch = 0 /\ limit <= 0
    /\ \A p \in Procs : calls[p].pc = "idle"
    /\ SpentOf(k) > 0 /\ db[k].present /\ db[k].spent = SpentOf(k)

\* goroutine p takes kw.mu inside Allow or ManagerMoney.AddCost in this step
TakesKeyLock(p) ==
  /\ calls[p].pc = "lock" /\ calls[p].fn \in {"Allow", "AddCost"}
  /\ calls'[p].pc \in {"unlock", "add"}

\* C12: the window reset rule.  When Allow or AddCost takes the lock of a
\* window with now - windowStart >= 1 hour, the window is reset to spent 0 and
\* windowStart = now: Allow reports spent 0 and allowed, AddCost leaves
\* spent = delta.  With now - windowStart < 1 hour nothing is reset: Allow
\* reports the spent carried over and AddCost leaves old spent + delta.
C12_WindowReset ==
  [][\A p \in Procs :
       /\ TakesKeyLock(p) =>
            LET i == calls[p].kw
                carried == IF now - kws[i].windowStart >= Hour THEN 0 ELSE kws[i].spent
            IN /\ kws'[i].windowStart =
                    IF now - kws[i].windowStart >= Hour THEN now ELSE kws[i].windowStart
               /\ kws'[i].spent = carried
               /\ calls[p].fn = "Allow" =>
                    /\ calls'[p].spent = carried
                    /\ now - kws[i].windowStart >= Hour => calls'[p].allowed
               /\ calls[p].fn = "AddCost" => calls'[p].tmp = carried
       /\ (calls[p].pc = "add" /\ calls'[p].pc # "add") =>
            /\ kws[calls[p].kw].spent = calls[p].tmp
            /\ kws'[calls[p].kw].spent = calls[p].tmp + calls[p].delta
            /\ kws'[calls[p].kw].windowStart = kws[calls[p].kw].windowStart]_vars

\* a charge on an expired window that held more: the key's spent is the
\* delta alone and the window starts at the time of the charge
C12_Witness ==
  \E p \in Procs :
    /\ calls[p].op = "AddCostWithMaskedKey" /\ calls[p].pc \in {"sv_lock", "save"}
    /\ calls[p].delta > 0 /\ calls[p].own = calls[p].delta
    /\ calls[p].ownStart >= Hour
    /\ \E t \in hist.totals[calls[p].key] : t > calls[p].own
    /\ SpentOf(calls[p].key) = calls[p].delta

\* C13: one reset per expiry.  A key has one window object, used by every
\* call on the key; a step moves its windowStart or lowers its spent only as
\* a reset of an expired window (the new start at least one hour after the
\* old one, spent 0), so the calls racing at one expiry apply one reset and
\* no reset erases a delta added after it.
C13_OneResetPerExpiry ==
  /\ [](\A p \in Procs :
         (calls[p].pc \in {"lock", "unlock", "add"} /\ ~panicked) =>
           perKey[calls[p].key] = calls[p].kw)
  /\ [][\A i \in DOMAIN kws :
          (i \in DOMAIN kws' /\ hist'.epoch = hist.epoch
           /\ (kws'[i].windowStart # kws[i].windowStart \/ kws'[i].spent < kws[i].spent))
          => /\ kws'[i].windowStart - kws[i].windowStart >= Hour
             /\ kws'[i].spent = 0]_vars

\* an Allow and an AddCost raced at the expiry of a window created at time 0:
\* the AddCost reset it and added its delta, the Allow then saw the new
\* window and that delta
C13_Witness ==
  \E p \in Procs, q \in Procs :
    /\ calls[p].op = "Allow" /\ calls[p].pc = "unlock"
    /\ calls[q].op = "AddCostWithMaskedKey" /\ calls[q].pc \in {"sv_lock", "save"}
    /\ calls[q].key = calls[p].key
    /\ calls[p].kwStart = 0 /\ calls[q].kwStart = 0
    /\ calls[q].ownStart >= Hour /\ calls[q].own = calls[q].delta
    /\ kws[calls[p].kw].windowStart = calls[q].ownStart
    /\ calls[p].spent = calls[q].own

\* C15: untracked decisions.  An Allow with an empty key, a negative or a
\* zero limit returns in the step that issues it: it never reaches
\* getKWMoney or a window, and the step that issues a call changes no key
\* record, no window and no store row.
C15_UntrackedDecisions ==
  /\ [](\A p \in Procs :
         (calls[p].fn = "Allow" /\ calls[p].pc # "idle") =>
           calls[p].key # "" /\ calls[p].lim > 0)
  /\ [][hist'.left < hist.left => UNCHANGED <<perKey, kws, db>>]_vars

\* an Allow denied under a zero limit reported spent 0 for a key whose window
\* still holds its spend
C15_Witness ==
  \E p \in Procs :
    /\ Finished(p, "Allow") /\ calls[p].key # "" /\ calls[p].lim = 0
    /\ ~calls[p].allowed /\ calls[p].spent = 0
    /\ ~calls[p].stale
    /\ SpentOf(calls[p].key) > 0

\* C17: Close is idempotent.  Once a Close has returned (the database handle
\* is released) stopChan is closed and no goroutine is in the cleanup or at
\* db.Close(); a Close issued from then on returns in the step that issues
\* it, without a panic and without touching the store, the handle or the
\* channel.
C17_CloseIdempotent ==
  /\ [](~dbOpen =>
         /\ stopChan
         /\ \A p \in Procs : calls[p].pc \notin {"cleanup", "db_close"})
  /\ [][\A p \in Procs :
          (/\ ~dbOpen /\ calls[p].pc = "idle"
           /\ hist'.left < hist.left /\ calls'[p].op = "Close")
          => /\ calls'[p].pc = "idle"
             /\ ~panicked'
             /\ UNCHANGED <<db, dbOpen, stopChan, mu, perKey, kws>>]_vars

\* a Close issued after the first one had returned has returned too, and
\* nothing panicked
C17_Witness ==
  /\ \A p \in Procs : Finished(p, "Close")
  /\ hist.reclosed
  /\ ~dbOpen /\ stopChan /\ ~panicked

\* C20: a save failure is not fatal.  After a failed save, with a positive
\* unchanged limit and no window expiry, every key's in-memory spent is still
\* the sum of the deltas charged to it, and Allow reports that total and
\* decides against it.
C20_SaveFailureKeepsIncrement ==
  \A k \in Keys \ {""} :
    (/\ hist.saveErr /\ hist.limitStable
     /\ now - hist.bootTime < Hour
     /\ \A p \in Procs : ~Incrementing(p, k))
    => /\ SpentOf(k) = hist.requested[k]
       /\ ReportedSpent(k) = hist.requested[k]
       /\ ReportedAllowed(k) <=> hist.requested[k] < limit

\* the only call made has returned after its save failed: no row, and the
\* key's spent is the call's delta, which has reached the limit
C20_Witness ==
  \E p \in Procs :
    /\ Finished(p, "AddCostWithMaskedKey") /\ calls[p].delta > 0
    /\ \A q \in Procs \ {p} : calls[q] = Idle
    /\ hist.saveErr /\ hist.limitStable /\ ~panicked
    /\ ~db[calls[p].key].present
    /\ SpentOf(calls[p].key) = calls[p].delta
    /\ ReportedSpent(calls[p].key) = calls[p].delta
    /\ ~ReportedAllowed(calls[p].key)

\* C14 as stated: with a non-empty key, a positive delta and a limit that is
\* not negative, a charge that has returned has raised the key's spent by its
\* delta (no window has expired yet).
C14_AddsUnlessDisabled ==
  \A p \in Procs :
    (/\ Finished(p, "AddCostWithMaskedKey")
     /\ calls[p].key # "" /\ calls[p].delta > 0 /\ limit >= 0
     /\ now - hist.bootTime < Hour)
    => SpentOf(calls[p].key) >= calls[p].delta

\* C14, amended (the limit does not change during the calls): AddCost is a
\* no-op when delta <= 0, the key is empty, or the limit is negative or zero:
\* only a call with a non-empty key, a positive delta and a positive limit
\* reaches a window, under a limit that is not positive there is no key
\* record, no window and no store row, and the step issuing a call changes
\* none.  Such a call raises the key's current-window spent by exactly delta.
C14_AddCostEffect ==
  /\ [](\A p \in Procs :
         /\ calls[p].fn = "AddCost" =>
              calls[p].key # "" /\ calls[p].delta > 0 /\ limit >= 0
         /\ (calls[p].fn = "AddCost" /\ calls[p].pc \in {"getkw_store", "lock", "add"}) =>
              limit > 0
         /\ (/\ Finished(p, "AddCostWithMaskedKey")
             /\ calls[p].key # "" /\ calls[p].delta > 0 /\ limit > 0
             /\ now - hist.bootTime < Hour)
            => SpentOf(calls[p].key) >= calls[p].delta)
  /\ [](limit <= 0 =>
         /\ kws = <<>>
         /\ \A k \in Keys : perKey[k] = 0 /\ ~db[k].present)
  /\ [][/\ hist'.left < hist.left => UNCHANGED <<perKey, kws, db>>
        /\ \A p \in Procs :
             (calls[p].pc = "add" /\ calls'[p].pc # "add") =>
               kws'[calls[p].kw].spent = kws[calls[p].kw].spent + calls[p].delta]_vars

\* under a zero limit a charge with a positive delta on a non-empty key has
\* returned and left no window and no row
C14_Witness ==
  \E p \in Procs :
    /\ Finished(p, "AddCostWithMaskedKey")
    /\ calls[p].key # "" /\ calls[p].delta > 0
    /\ limit = 0 /\ hist.left = 0
    /\ kws = <<>> /\ ~db[calls[p].key].present

\* goroutine p runs cleanupOldRecords in this step
RunsCleanup(p) == calls[p].pc = "cleanup" /\ calls'[p].pc = "db_close"

Entries(p) == {calls[p].out[i] : i \in DOMAIN calls[p].out}

\* C11: UpdateLimit is atomic with respect to the operations running beside
\* it: every entry GetAllUsage returns is computed against one limit value,
\* so an entry with Limit >= 0 has Allowed = (Spent < Limit) and
\* Remaining = max(0, Limit - Spent) for the Limit it reports.
C11_OneLimitValue ==
  \A p \in Procs : Finished(p, "GetAllUsage") =>
    \A e \in Entries(p) : e.limit >= 0 =>
      /\ e.allowed = (e.spent < e.limit)
      /\ e.remaining = (IF e.limit - e.spent > 0 THEN e.limit - e.spent ELSE 0)

\* goroutine p takes a step of a GetUsage or GetAllUsage call of its own
Reports(p) ==
  /\ calls[p].op \in {"GetUsage", "GetAllUsage"}
  /\ calls[p].pc # "idle" /\ calls'[p] # calls[p]

\* C16: GetUsage and GetAllUsage are read-only apart from the expiry reset.
\* A step of either call adds no key to perKey and no window, and changes a
\* window only by resetting an expired one; so every entry a GetAllUsage
\* returns is for a key some AddCost has charged or is charging, never for a
\* key that was only asked about with GetUsage.
C16_ReadOnlyReports ==
  /\ [](\A p \in Procs : Finished(p, "GetAllUsage") =>
          \A e \in Entries(p) :
            hist.totals[e.key] # {} \/ \E q \in Procs : Incrementing(q, e.key))
  /\ [][\A p \in Procs : Reports(p) =>
          /\ perKey' = perKey /\ Len(kws') = Len(kws)
          /\ \A i \in DOMAIN kws :
               \/ kws'[i] = kws[i]
               \/ /\ calls[p].unow - kws[i].windowStart >= Hour
                  /\ kws'[i].spent = 0]_vars

\* C19: masked-only exposure.  Every entry GetAllUsageWithMaskedKeys returns
\* carries a stored masked key as its Key, never the hashed key, also for
\* keys only checked with Allow or charged without a masked key.
C19_MaskedOnly ==
  \A p \in Procs : Finished(p, "GetAllUsageWithMaskedKeys") =>
    \A e \in Entries(p) : e.key \in MaskedKeys

\* C21: a failed load falls back to empty state.  When the load of the
\* persisted usage fails during construction, the constructor still returns
\* a usable manager, and in it no key has any recorded spend.
C21_LoadFailureEmpty ==
  [][IsRestart /\ hist'.loadErr =>
       /\ dbOpen' /\ ~stopChan' /\ ~panicked'
       /\ \A k \in Keys : perKey'[k] = 0]_vars

\* goroutine p takes a step of an HTTP request that has not been forwarded
Unforwarded(p) ==
  /\ calls'[p].op = "ServeHTTP" /\ calls'[p] # calls[p]
  /\ ~calls'[p].forwarded

\* the Allow call of the HTTP request of goroutine p returns in this step
AllowReturns(p) ==
  /\ calls'[p].op = "ServeHTTP" /\ calls'[p] # calls[p]
  /\ calls[p].fn = "Allow" \/ calls[p].pc = "idle"
  /\ calls'[p].fn # "Allow"

\* C22: denied requests are never forwarded.  When the Allow check of a
\* request returns false the request is answered with 429 and is over, when
\* it returns true the request goes on to the upstream; a request answered
\* with 429 has not been sent upstream; and no step of a request that has not
\* been forwarded writes a store row or raises the spend of a key.
C22_DeniedNotForwarded ==
  /\ [](\A p \in Procs : calls[p].op = "ServeHTTP" /\ calls[p].status = 429 =>
          ~calls[p].forwarded /\ ~calls[p].allowed /\ calls[p].pc = "idle")
  /\ [][\A p \in Procs : AllowReturns(p) =>
          IF calls'[p].allowed
            THEN calls'[p].pc = "proxy" /\ calls'[p].status = 0
            ELSE /\ calls'[p].pc = "idle" /\ calls'[p].status = 429
                 /\ ~calls'[p].forwarded]_vars
  /\ [][\A p \in Procs : Unforwarded(p) =>
          /\ db' = db
          /\ \A i \in DOMAIN kws : kws'[i].spent <= kws[i].spent
          /\ \A i \in DOMAIN kws' \ DOMAIN kws : kws'[i].spent = 0]_vars

\* a request was answered 429 for a key whose spend an earlier, forwarded
\* request had brought to the limit
C22_Witness ==
  \E p, q \in Procs :
    /\ Finished(p, "ServeHTTP") /\ calls[p].status = 429 /\ calls[p].key # ""
    /\ Finished(q, "ServeHTTP") /\ calls[q].status = 200 /\ calls[q].key = calls[p].key
    /\ limit > 0 /\ SpentOf(calls[p].key) >= limit

\* the Allow check of the HTTP request of goroutine p is decided in this
\* step, no other request is in flight, and every earlier request of the key
\* cost c
NthRequest(p, c) ==
  /\ calls[p].op = "ServeHTTP" /\ calls[p].pc = "lock" /\ calls'[p].pc = "unlock"
  /\ \A q \in Procs \ {p} : calls[q].pc = "idle"
  /\ hist.costs[calls[p].key] \subseteq {c}

\* a priced response is only charged for a request that was admitted and sent
\* upstream
ChargedAfterResponse ==
  \A p \in Procs : calls[p].op = "ServeHTTP" /\ calls[p].fn = "AddCost" =>
    calls[p].forwarded /\ calls[p].status = 200

C24_LongestPrefix ==
  pricing.op = "resolveModelName" =>
    LET raw == pricing.in.raw
        keys == DOMAIN pricing.config.Models
        prefixes == {k \in keys : /\ Len(k) <= Len(raw)
                                   /\ \A i \in 1 .. Len(k) : k[i] = raw[i]}
    IN pricing.out =
         IF raw \in keys THEN raw
         ELSE IF prefixes # {}
           THEN CHOOSE k \in prefixes : \A j \in prefixes : Len(j) <= Len(k)
         ELSE raw

\* C24: resolveModelName returns raw when raw is a configured key, otherwise
\* the longest non-empty configured key that is a prefix of raw whatever the
\* order of the map iteration, otherwise raw.
C24_LongestNonEmptyPrefix ==
  pricing.op = "resolveModelName" =>
    LET raw == pricing.in.raw
        keys == DOMAIN pricing.config.Models
        prefixes == {k \in keys \ {<<>>} : /\ Len(k) <= Len(raw)
                                            /\ \A i \in 1 .. Len(k) : k[i] = raw[i]}
    IN pricing.out =
         IF raw \in keys THEN raw
         ELSE IF prefixes # {}
           THEN CHOOSE k \in prefixes : \A j \in prefixes : Len(j) <= Len(k)
         ELSE raw

\* two configured keys are prefixes of the name and the longer one is returned
C24_Witness ==
  /\ pricing.op = "resolveModelName"
  /\ DOMAIN pricing.config.Models = {<<>>, <<"a">>, <<"a", "b">>}
  /\ pricing.in.raw = <<"a", "b", "a">>
  /\ pricing.out = <<"a", "b">>

\* ---- C25 -------------------------------------------------------------------
\* C25: GetTierPricingMoney returns the model's standard rates under the name
\* "standard" when the requested tier is "standard" or the model has no
\* override for it, and otherwise the override's rates under the requested
\* tier's name.
C25_TierSelection ==
  pricing.op = "GetTierPricingMoney" =>
    LET mp == ToMoney(pricing.config.Models[pricing.in.key])
        tier == pricing.in.tier
        override == IF tier = "flex" THEN mp.Flex
                    ELSE IF tier = "priority" THEN mp.Priority
                    ELSE IF tier = "batch" THEN mp.Batch
                    ELSE [set |-> FALSE]
    IN IF tier = "standard" \/ ~override.set
         THEN pricing.out = [prompt |-> mp.Prompt, cachedPrompt |-> mp.CachedPrompt,
                             completion |-> mp.Completion, tier |-> "standard"]
         ELSE pricing.out = [prompt |-> override.Prompt,
                             cachedPrompt |-> override.CachedPrompt,
                             completion |-> override.Completion, tier |-> tier]

\* a model with a batch override is asked for the batch tier and answers
\* with the override's rates
C25_Witness ==
  /\ pricing.op = "GetTierPricingMoney"
  /\ pricing.in = [key |-> <<"a", "b">>, tier |-> "batch"]
  /\ pricing.out = [prompt |-> 5, cachedPrompt |-> 3, completion |-> 10, tier |-> "batch"]

\* ---- C26 -------------------------------------------------------------------
\* C26: when the model name is no configured key, no configured key is a
\* prefix of it and no default pricing is configured, ComputePriceMoneyWithTier
\* returns without error a result whose prompt, completion and total cost are
\* zero, whose note is "unknown model pricing" and whose token counts are the
\* ones it was given.
C26_UnknownModelZeroCost ==
  pricing.op = "ComputePriceMoneyWithTier" =>
    LET raw == pricing.in.raw
        u == pricing.in.usage
        keys == DOMAIN pricing.config.Models
        matched == \E k \in keys : /\ Len(k) <= Len(raw)
                                   /\ \A i \in 1 .. Len(k) : k[i] = raw[i]
    IN ~matched /\ ~pricing.config.hasDefault =>
         /\ ~pricing.out.err
         /\ IsZero(pricing.out.PromptCost)
         /\ IsZero(pricing.out.CompletionCost)
         /\ IsZero(pricing.out.TotalCost)
         /\ pricing.out.Note = <<"unknown model pricing">>
         /\ pricing.out.PromptTokens = u.PromptTokens
         /\ pricing.out.CompletionTokens = u.CompletionTokens

\* a name that matches none of the two configured keys is priced for a usage
\* with tokens of every kind, with no default configured
C26_Witness ==
  /\ pricing.op = "ComputePriceMoneyWithTier"
  /\ DOMAIN pricing.config.Models = {<<"a">>, <<"a", "b">>}
  /\ ~pricing.config.err /\ ~pricing.config.hasDefault
  /\ pricing.in.raw = <<"b", "a">>
  /\ pricing.in.usage = [PromptTokens |-> 3, CompletionTokens |-> 2, PromptCachedTokens |-> 1]
  /\ pricing.out.Note = <<"unknown model pricing">>
  /\ pricing.out.PromptTokens = 3 /\ pricing.out.CompletionTokens = 2

\* ---- C27 -------------------------------------------------------------------
\* C27 as stated: a usage with more cached prompt tokens than prompt tokens
\* gets the prompt, completion and total cost of the same usage with the
\* cached tokens equal to the prompt tokens.  A negative prompt count is
\* billed at the cached rate in the first usage and at the prompt rate in
\* the second.
C27_ClampedAsEqual ==
  pricing.op = "ComputePriceMoneyWithTier" =>
    LET u == pricing.in.usage
        same == [u EXCEPT !.PromptCachedTokens = u.PromptTokens]
    IN u.PromptCachedTokens > u.PromptTokens =>
         \A o1, o2 \in Orders(DOMAIN pricing.config.Models) :
           LET r == ComputePriceMoneyWithTier(pricing.config, pricing.in.raw, same,
                                              pricing.in.tier, o1, o2)
           IN /\ pricing.out.PromptCost = r.PromptCost
              /\ pricing.out.CompletionCost = r.CompletionCost
              /\ pricing.out.TotalCost = r.TotalCost

\* C27: a usage with no negative prompt token count and more cached prompt
\* tokens than prompt tokens gets the prompt, completion and total cost of
\* the same usage with the cached tokens equal to the prompt tokens.
C27_CachedClamp ==
  pricing.op = "ComputePriceMoneyWithTier" =>
    LET u == pricing.in.usage
        same == [u EXCEPT !.PromptCachedTokens = u.PromptTokens]
    IN u.PromptTokens >= 0 /\ u.PromptCachedTokens > u.PromptTokens =>
         \A o1, o2 \in Orders(DOMAIN pricing.config.Models) :
           LET r == ComputePriceMoneyWithTier(pricing.config, pricing.in.raw, same,
                                              pricing.in.tier, o1, o2)
           IN /\ pricing.out.PromptCost = r.PromptCost
              /\ pricing.out.CompletionCost = r.CompletionCost
              /\ pricing.out.TotalCost = r.TotalCost

\* four cached tokens are reported with one prompt token for a model whose
\* cached rate is 2 and whose completion rate is 6: the prompt token is
\* billed once, at the cached rate
C27_Witness ==
  /\ pricing.op = "ComputePriceMoneyWithTier"
  /\ pricing.in.raw = <<"a">> /\ pricing.in.tier = "standard"
  /\ <<"a">> \in DOMAIN pricing.config.Models
  /\ pricing.in.usage = [PromptTokens |-> 1, CompletionTokens |-> 2, PromptCachedTokens |-> 4]
  /\ pricing.out.PromptCost = 2 /\ pricing.out.CompletionCost = 12
  /\ pricing.out.TotalCost = 14

\* ---- C28 -------------------------------------------------------------------
\* C28: for every per-token rate r and every number n >= 0 of tokens, the
\* sum of n one-token charges at rate r equals r multiplied by n, also when
\* the amounts wrap around.
C28_TokenAdditivity ==
  pricing.op = "Accumulate" =>
    pricing.out.acc = Multiply(pricing.in.rate, pricing.out.n)

\* MaxTokens charges at the rate 50 have been added, and the sum has wrapped
\* around to a negative amount
C28_Witness ==
  /\ pricing.op = "Accumulate"
  /\ pricing.in.rate = 50
  /\ pricing.out.n = MaxTokens
  /\ pricing.out.acc = Multiply(50, MaxTokens)
  /\ IsNegative(pricing.out.acc)

\* ---- C29 -------------------------------------------------------------------
\* C29: ParseUsageFromResponse returns ok = false exactly when the object
\* discriminator is present and is neither "chat.completion" nor "response",
\* or when the payload has no usage object; without a discriminator the
\* payload is parsed as a chat completion.
C29_ExtractionOutcome ==
  pricing.op = "ParseUsageFromResponse" =>
    LET parsed == pricing.in
        unrecognized ==
          /\ parsed.object.t # "absent"
          /\ parsed.object # [t |-> "string", s |-> "chat.completion"]
          /\ parsed.object # [t |-> "string", s |-> "response"]
    IN /\ ~pricing.out.ok <=> (unrecognized \/ parsed.usage.t # "object")
       /\ parsed.object.t = "absent" => pricing.out = parseChatCompletionUsage(parsed)

\* ---- C30 -------------------------------------------------------------------
\* C30: a raw model name that equals an alias configured under a model is
\* priced with that model's rates: the costs are the ones the model's own
\* name gets for the same usage and tier, and the result is not the one of
\* an unknown model.
C30_AliasPricing ==
  pricing.op = "ComputePriceMoneyWithTier" =>
    \A k \in DOMAIN pricing.config.Models :
      pricing.in.raw \in pricing.config.Models[k].Aliases =>
        \A o1, o2 \in Orders(DOMAIN pricing.config.Models) :
          LET r == ComputePriceMoneyWithTier(pricing.config, k, pricing.in.usage,
                                             pricing.in.tier, o1, o2)
          IN /\ pricing.out.PromptCost = r.PromptCost
             /\ pricing.out.CompletionCost = r.CompletionCost
             /\ pricing.out.TotalCost = r.TotalCost
             /\ pricing.out.Note # <<"unknown model pricing">>

\* ---- C31 -------------------------------------------------------------------
\* C31: a restart does not extend a window: every window the new process
\* restores starts at the window start its row holds, so that spend from a
\* window that started at W is no longer counted one hour after W.
C31_KeepsPersistedStart ==
  [][hist'.epoch > hist.epoch =>
       \A k \in Keys :
         perKey'[k] # 0 =>
           kws'[perKey'[k]].windowStart = FromUnix(db[k].windowStart)]_vars

C33_GetUsageAgreesWithAllow ==
  [][\A p \in Procs :
       /\ (/\ calls[p].pc = "idle" /\ hist'.left < hist.left
           /\ calls'[p].pc = "idle" /\ calls'[p].op = "GetUsage"
           /\ \A q \in Procs \ {p} : calls'[q] = calls[q])
          => /\ calls'[p].allowed = ReportedAllowed(calls'[p].key)
             /\ calls'[p].spent = ReportedSpent(calls'[p].key)
       /\ (/\ calls[p].op = "GetUsage" /\ calls[p].pc = "lock" /\ calls'[p].pc = "gu_ws"
           /\ calls[p].unow = now /\ calls[p].lim = limit)
          => /\ calls'[p].spent = ReportedSpent(calls[p].key)
             /\ LessThan(calls'[p].spent, calls[p].lim) = ReportedAllowed(calls[p].key)]_vars

\* ---- C34 -------------------------------------------------------------------
\* C34: no torn snapshots: in the result of GetUsage and in every entry of
\* GetAllUsage the window end is the window start plus one hour, also when
\* another call resets the window of that key meanwhile.
C34_NoTornSnapshots ==
  \A p \in Procs :
    /\ Finished(p, "GetUsage") => calls[p].windowEnd = calls[p].windowStart + Hour
    /\ calls[p].op = "GetAllUsage"
       => \A e \in Entries(p) : e.windowEnd = e.windowStart + Hour

C36_NoSpendOverflow ==
  /\ limit <= MaxMoney
  /\ \A k \in Keys : 0 <= SpentOf(k) /\ SpentOf(k) <= MaxMoney
  /\ \A p \in Procs :
       (Finished(p, "Allow") /\ calls[p].allowed) => calls[p].spent >= 0

\* ---- C37 -------------------------------------------------------------------
\* C37: concurrent Close is safe: whatever the interleaving of Close calls,
\* none panics (the stop channel is closed once) and the store handle is
\* released once: a goroutine at db.Close() still finds it open.
C37_ConcurrentCloseSafe ==
  /\ ~panicked
  /\ \A p \in Procs : calls[p].pc = "db_close" => dbOpen

\* ---- C38 -------------------------------------------------------------------
\* C38: deadlock freedom.  While a call is in progress some call can take a
\* step; p.mu is never taken or waited for by a goroutine that holds a
\* per-key mutex; and under fair scheduling every call returns.
C38_DeadlockFreedom ==
  /\ []((\E p \in Procs : calls[p].pc # "idle") => ENABLED LiveSteps)
  /\ [](\A p \in Procs :
          (\E i \in DOMAIN kws : kws[i].mu = p)
          => mu # p /\ calls[p].pc \notin {"sv_lock", "cleanup"}
             /\ ~(calls[p].op = "GetAllUsageWithMaskedKeys"))
  /\ \A p \in Procs : (calls[p].pc # "idle") ~> (calls[p].pc = "idle")

\* ---- C39 -------------------------------------------------------------------
\* C39: the reported tier matches the rates used.  A priced result that
\* reports the tier "standard" carries the costs that a standard rate triple
\* gives for its usage (that of a configured model, or that of the default
\* pricing), and a result that reports a named tier carries the costs that
\* some configured override of that tier gives.
C39_TierMatchesRates ==
  (pricing.op = "ComputePriceMoneyWithTier" /\ pricing.out.Note[1] # "unknown model pricing")
  => LET cfg == pricing.config
         u == pricing.in.usage
         out == pricing.out
         cached == ClampCached(u.PromptCachedTokens, u.PromptTokens)
         Priced(prompt, cachedPrompt, completion) ==
           /\ out.PromptCost = IF u.PromptCachedTokens > 0
                                 THEN Add(Multiply(prompt, u.PromptTokens - cached),
                                          Multiply(cachedPrompt, cached))
                                 ELSE Multiply(prompt, u.PromptTokens)
           /\ out.CompletionCost = Multiply(completion, u.CompletionTokens)
         sources == {ToMoney(cfg.Models[k]) : k \in DOMAIN cfg.Models}
                      \cup (IF cfg.hasDefault THEN {ToMoney(cfg.Default)} ELSE {})
         Override(mp) == IF out.ServiceTier = "flex" THEN mp.Flex
                         ELSE IF out.ServiceTier = "priority" THEN mp.Priority
                         ELSE mp.Batch
     IN IF out.ServiceTier = "standard"
          THEN \E mp \in sources : Priced(mp.Prompt, mp.CachedPrompt, mp.Completion)
          ELSE /\ out.ServiceTier \in {"flex", "priority", "batch"}
               /\ \E mp \in sources :
                    /\ Override(mp).set
                    /\ Priced(Override(mp).Prompt, Override(mp).CachedPrompt,
                              Override(mp).Completion)

\* ---- C40 -------------------------------------------------------------------
\* C40: in the float64 limiter a limit of exactly 0 blocks every non-empty
\* key: Allow returns false before any spend is recorded, while the empty
\* key is still allowed.
C40_FloatZeroLimitBlocks ==
  \A p \in Procs :
    (Finished(p, "Allow") /\ calls[p].lim = 0)
    => (calls[p].allowed <=> calls[p].key = "")
====
